---- MODULE Spec2Model ----
(***************************************************************************)
(* github-stats: the browser dashboard (web/dashboard.js), the validation  *)
(* script aggregateTeamDataWithMaxAI and the report pipeline               *)
(* (calculateTeamDailyStats and the CSV writers of github-stats-core.js).  *)
(*                                                                         *)
(* Encoding of JavaScript values:                                          *)
(*   - a calendar day "YYYY-MM-DD" is a day number 1, 2, ...; the empty    *)
(*     string of a date input is 0 (falsy, as in the code);                *)
(*   - a JS Map / plain object is a sequence of [key, value] entries in    *)
(*     insertion order;                                                    *)
(*   - a percentage kept as a JS number is the exact fraction [num, den];  *)
(*     a percentage printed with toFixed(1) is the number of tenths.       *)
(***************************************************************************)
EXTENDS Integers, Sequences, FiniteSets, TLC

\* ------------------------------------------------------------------------
\* Bounds
\* ------------------------------------------------------------------------
\* number of daily-batch rows served to the dashboard
MaxRows == 3

\* ------------------------------------------------------------------------
\* Rows of the daily-batch CSV as the dashboard sees them after parseCSV
\* ------------------------------------------------------------------------
\* an empty CSV cell: parseCSV yields '' for it
NoValue == -1

Fulfillment == "Fulfillment"
QaTeam == "qa-automation-team"

mkRow(date, team, repo, contributor, sha, code, ai) ==
    [Date |-> date, Team |-> team, Repository |-> repo,
     Contributor |-> contributor, CommitSHA |-> sha,
     CodeLines |-> code, AILines |-> ai]

\* The rows a daily-batch file can hold.  A physical commit has one date and
\* one CodeLines value whatever team lists it; AILines is estimated per team.
\* "Team Summary" rows are the synthetic rows of saveDailyBatchCSV; the rows
\* with an empty CommitSHA are rows whose SHA cell is missing.
CommitRows ==
    { mkRow(1, t, "order-handler", "carlos", "00ba127", 231, ai) :
         t \in {Fulfillment, QaTeam}, ai \in {0, 15} }
    \cup { mkRow(2, t, "api-automation", "carlos", "1ac08eb", 0, 0) :
         t \in {Fulfillment, QaTeam} }
    \cup { mkRow(2, Fulfillment, "order-handler", "emestanza", "abc123d", 100, 20) }

SummaryRows ==
    { mkRow(1, Fulfillment, "Multiple", "Team Summary", "N/A", 50, 5),
      mkRow(2, QaTeam, "Multiple", "Team Summary", "N/A", 40, 8) }

NoShaRows ==
    { mkRow(1, Fulfillment, "order-handler", "carlos", "", 10, NoValue) }

RowDomain == CommitRows \cup SummaryRows \cup NoShaRows

\* ------------------------------------------------------------------------
\* JavaScript helpers
\* ------------------------------------------------------------------------
\* parseInt(v) || 0 : a non-negative integer cell is kept, an empty cell
\* parses to NaN and becomes 0
ParseIntOr0(v) == IF v = NoValue THEN 0 ELSE v

\* a key that also tells the teams apart
CommitKey_withTeam(row) ==
    row.Team \o "_" \o row.Contributor \o "_" \o row.CommitSHA \o "_" \o row.Repository

\* `${row.Contributor}_${row.CommitSHA}_${row.Repository}`
CommitKey(row) == row.Contributor \o "_" \o row.CommitSHA \o "_" \o row.Repository

\* Map.prototype.has / get / set on an insertion-ordered map
MapHas(m, k) == \E i \in 1..Len(m) : m[i].key = k

MapGet(m, k) == m[CHOOSE i \in 1..Len(m) : m[i].key = k].value

MapSet(m, k, v) ==
    IF MapHas(m, k)
    THEN [i \in 1..Len(m) |-> IF m[i].key = k THEN [key |-> k, value |-> v] ELSE m[i]]
    ELSE Append(m, [key |-> k, value |-> v])

MapKeys(m) == { m[i].key : i \in 1..Len(m) }

RECURSIVE SumSeq(_)
SumSeq(s) == IF s = <<>> THEN 0 ELSE SumSeq(SubSeq(s, 1, Len(s) - 1)) + s[Len(s)]

\* totalAILines / totalCodeLines * 100 when totalCodeLines > 0, else 0
Percentage(ai, code) ==
    IF code > 0 THEN [num |-> ai * 100, den |-> code] ELSE [num |-> 0, den |-> 1]

\* ------------------------------------------------------------------------
\* Deduplication loops (one per view; the guard is the same in all of them)
\* ------------------------------------------------------------------------
\* the guard reversed: the row with the lower AI lines replaces the entry
summaryDedupStep_lowerWins(uniqueCommits, row) ==
    LET commitKey == CommitKey(row)
        codeLines == ParseIntOr0(row.CodeLines)
        aiLines == ParseIntOr0(row.AILines)
    IN IF ~MapHas(uniqueCommits, commitKey)
          \/ MapGet(uniqueCommits, commitKey).aiLines > aiLines
       THEN MapSet(uniqueCommits, commitKey,
                   [codeLines |-> codeLines, aiLines |-> aiLines,
                    contributor |-> row.Contributor,
                    repository |-> row.Repository, team |-> row.Team])
       ELSE uniqueCommits

\* calculateSummaryStats: one iteration of data.forEach over uniqueCommits
summaryDedupStep(uniqueCommits, row) ==
    LET commitKey == CommitKey(row)
        codeLines == ParseIntOr0(row.CodeLines)
        aiLines == ParseIntOr0(row.AILines)
    IN IF ~MapHas(uniqueCommits, commitKey)
          \/ MapGet(uniqueCommits, commitKey).aiLines < aiLines
       THEN MapSet(uniqueCommits, commitKey,
                   [codeLines |-> codeLines, aiLines |-> aiLines,
                    contributor |-> row.Contributor,
                    repository |-> row.Repository, team |-> row.Team])
       ELSE uniqueCommits

RECURSIVE summaryUniqueCommits(_)
summaryUniqueCommits(data) ==
    IF data = <<>> THEN <<>>
    ELSE summaryDedupStep(summaryUniqueCommits(SubSeq(data, 1, Len(data) - 1)),
                          data[Len(data)])

\* reduce((sum, commit) => sum + commit.<field>, 0) over the map's values
SumCodeLines(m) == SumSeq([i \in 1..Len(m) |-> m[i].value.codeLines])
SumAILines(m) == SumSeq([i \in 1..Len(m) |-> m[i].value.aiLines])

DefaultStats ==
    [totalCodeLines |-> 0, totalAILines |-> 0, totalCommits |-> 0,
     activeContributors |-> 0, aiPercentage |-> Percentage(0, 0),
     repositories |-> 0, uniqueAuthors |-> 0]

\* the totals summed over the raw rows, without the uniqueCommits map
calculateSummaryStats_rawSums(dailyBatches, timeSeries) ==
    IF Len(dailyBatches) > 0
    THEN LET rows == { dailyBatches[i] : i \in 1..Len(dailyBatches) }
             code == SumSeq([i \in 1..Len(dailyBatches) |->
                               ParseIntOr0(dailyBatches[i].CodeLines)])
             ai == SumSeq([i \in 1..Len(dailyBatches) |->
                             ParseIntOr0(dailyBatches[i].AILines)])
         IN [totalCodeLines |-> code, totalAILines |-> ai,
             totalCommits |-> Len(dailyBatches),
             activeContributors |-> Cardinality({ r.Team : r \in rows }),
             aiPercentage |-> Percentage(ai, code),
             repositories |-> Cardinality({ r.Repository : r \in rows }),
             uniqueAuthors |-> Cardinality({ r.Contributor : r \in rows })]
    ELSE DefaultStats

\* calculateSummaryStats(): the daily-batch branch, the time-series fallback
\* and the defaults
calculateSummaryStats(dailyBatches, timeSeries) ==
    IF Len(dailyBatches) > 0
    THEN LET uniqueCommits == summaryUniqueCommits(dailyBatches)
             rows == { dailyBatches[i] : i \in 1..Len(dailyBatches) }
             code == SumCodeLines(uniqueCommits)
             ai == SumAILines(uniqueCommits)
         IN [totalCodeLines |-> code, totalAILines |-> ai,
             totalCommits |-> Len(uniqueCommits),
             activeContributors |-> Cardinality({ r.Team : r \in rows }),
             aiPercentage |-> Percentage(ai, code),
             repositories |-> Cardinality({ r.Repository : r \in rows }),
             uniqueAuthors |-> Cardinality({ r.Contributor : r \in rows })]
    ELSE IF Len(timeSeries) > 0
    THEN LET code == SumSeq([i \in 1..Len(timeSeries) |-> timeSeries[i].DailyCodeLines])
             ai == SumSeq([i \in 1..Len(timeSeries) |-> timeSeries[i].DailyAILines])
         IN [totalCodeLines |-> code, totalAILines |-> ai,
             totalCommits |-> SumSeq([i \in 1..Len(timeSeries) |-> timeSeries[i].CommitCount]),
             activeContributors |->
                 Cardinality({ timeSeries[i].Team : i \in 1..Len(timeSeries) }),
             aiPercentage |-> Percentage(ai, code),
             repositories |-> 0, uniqueAuthors |-> 0]
    ELSE DefaultStats

\* ------------------------------------------------------------------------
\* renderAITeamsChart: per-team view
\* ------------------------------------------------------------------------
\* an entry that counts the AI lines on top of the code lines
teamsDedupStep_addsAILines(uniqueCommits, row) ==
    LET commitKey == CommitKey(row)
        codeLines == ParseIntOr0(row.CodeLines)
        aiLines == ParseIntOr0(row.AILines)
    IN IF ~MapHas(uniqueCommits, commitKey)
          \/ MapGet(uniqueCommits, commitKey).aiLines < aiLines
       THEN MapSet(uniqueCommits, commitKey,
                   [codeLines |-> codeLines + aiLines, aiLines |-> aiLines,
                    team |-> row.Team])
       ELSE uniqueCommits

teamsDedupStep(uniqueCommits, row) ==
    LET commitKey == CommitKey(row)
        codeLines == ParseIntOr0(row.CodeLines)
        aiLines == ParseIntOr0(row.AILines)
    IN IF ~MapHas(uniqueCommits, commitKey)
          \/ MapGet(uniqueCommits, commitKey).aiLines < aiLines
       THEN MapSet(uniqueCommits, commitKey,
                   [codeLines |-> codeLines, aiLines |-> aiLines, team |-> row.Team])
       ELSE uniqueCommits

RECURSIVE teamsUniqueCommits(_)
teamsUniqueCommits(data) ==
    IF data = <<>> THEN <<>>
    ELSE teamsDedupStep(teamsUniqueCommits(SubSeq(data, 1, Len(data) - 1)),
                        data[Len(data)])

\* uniqueCommits.forEach(commit => teamData[commit.team] += ...)
RECURSIVE aggregateTeamData(_)
aggregateTeamData(uniqueCommits) ==
    IF uniqueCommits = <<>> THEN <<>>
    ELSE LET teamData == aggregateTeamData(SubSeq(uniqueCommits, 1, Len(uniqueCommits) - 1))
             commit == uniqueCommits[Len(uniqueCommits)].value
             old == IF MapHas(teamData, commit.team) THEN MapGet(teamData, commit.team)
                    ELSE [totalCodeLines |-> 0, totalAILines |-> 0]
         IN MapSet(teamData, commit.team,
                   [totalCodeLines |-> old.totalCodeLines + commit.codeLines,
                    totalAILines |-> old.totalAILines + commit.aiLines])

\* a.aiPercentage > b.aiPercentage on exact fractions
PctGreater(a, b) == a.num * b.den > b.num * a.den

\* Array.prototype.sort((a, b) => b.aiPercentage - a.aiPercentage): stable,
\* descending
RECURSIVE sortByAiPercentageDesc(_)
sortByAiPercentageDesc(s) ==
    IF s = <<>> THEN <<>>
    ELSE LET sorted == sortByAiPercentageDesc(SubSeq(s, 1, Len(s) - 1))
             x == s[Len(s)]
             before == SelectSeq(sorted, LAMBDA y : ~PctGreater(x.aiPercentage, y.aiPercentage))
             after == SelectSeq(sorted, LAMBDA y : PctGreater(x.aiPercentage, y.aiPercentage))
         IN before \o <<x>> \o after

\* the chart aggregated from every row, each counted under its own team
renderAITeamsChart_perRow(data, teamFilterValue) ==
    IF Len(data) = 0 \/ teamFilterValue # ""
    THEN [shown |-> FALSE, teamData |-> <<>>, teamAIData |-> <<>>]
    ELSE LET teamData ==
                 aggregateTeamData([i \in 1..Len(data) |->
                     [key |-> CommitKey(data[i]),
                      value |-> [codeLines |-> ParseIntOr0(data[i].CodeLines),
                                 aiLines |-> ParseIntOr0(data[i].AILines),
                                 team |-> data[i].Team]]])
             all == [i \in 1..Len(teamData) |->
                        [team |-> teamData[i].key,
                         aiPercentage |-> Percentage(teamData[i].value.totalAILines,
                                                     teamData[i].value.totalCodeLines)]]
             kept == SelectSeq(all, LAMBDA item :
                        item.aiPercentage.num > 0 \/ Len(teamData) <= 5)
             teamAIData == sortByAiPercentageDesc(kept)
         IN [shown |-> Len(teamAIData) > 0, teamData |-> teamData,
             teamAIData |-> teamAIData]

\* renderAITeamsChart(): what the chart is built from.  shown = FALSE stands
\* for the "no data" and "filtered by team" messages drawn instead of a chart.
renderAITeamsChart(data, teamFilterValue) ==
    IF Len(data) = 0 \/ teamFilterValue # ""
    THEN [shown |-> FALSE, teamData |-> <<>>, teamAIData |-> <<>>]
    ELSE LET teamData == aggregateTeamData(teamsUniqueCommits(data))
             all == [i \in 1..Len(teamData) |->
                        [team |-> teamData[i].key,
                         aiPercentage |-> Percentage(teamData[i].value.totalAILines,
                                                     teamData[i].value.totalCodeLines)]]
             kept == SelectSeq(all, LAMBDA item :
                        item.aiPercentage.num > 0 \/ Len(teamData) <= 5)
             teamAIData == sortByAiPercentageDesc(kept)
         IN [shown |-> Len(teamAIData) > 0, teamData |-> teamData,
             teamAIData |-> teamAIData]

\* ------------------------------------------------------------------------
\* renderValidationTable: contributions table and its statistics
\* ------------------------------------------------------------------------
\* The table body lists the filtered rows in the current sort order; the
\* statistics below it are sums over those rows and do not depend on the order.
renderValidationTable(data) ==
    IF Len(data) = 0
    THEN [shown |-> FALSE, totalRows |-> 0, totalCommits |-> 0, totalCodeLines |-> 0,
          totalAILines |-> 0, avgAIPercentage |-> Percentage(0, 0),
          contributors |-> 0, repositories |-> 0]
    ELSE LET code == SumSeq([i \in 1..Len(data) |-> ParseIntOr0(data[i].CodeLines)])
             ai == SumSeq([i \in 1..Len(data) |-> ParseIntOr0(data[i].AILines)])
         IN [shown |-> TRUE, totalRows |-> Len(data),
             totalCommits |-> SumSeq([i \in 1..Len(data) |-> 1]),
             totalCodeLines |-> code, totalAILines |-> ai,
             avgAIPercentage |-> Percentage(ai, code),
             contributors |-> Cardinality({ data[i].Contributor : i \in 1..Len(data) }),
             repositories |-> Cardinality({ data[i].Repository : i \in 1..Len(data) })]

\* ------------------------------------------------------------------------
\* Validation script: aggregateTeamDataWithMaxAI
\* ------------------------------------------------------------------------
\* an entry that takes the higher AI lines but stays with its first team
maxAIDedupStep_keepsTeam(uniqueCommits, row) ==
    LET commitKey == CommitKey(row)
        codeLines == ParseIntOr0(row.CodeLines)
        aiLines == ParseIntOr0(row.AILines)
    IN IF ~MapHas(uniqueCommits, commitKey)
       THEN MapSet(uniqueCommits, commitKey,
                   [codeLines |-> codeLines, aiLines |-> aiLines,
                    team |-> row.Team, contributor |-> row.Contributor])
       ELSE IF MapGet(uniqueCommits, commitKey).aiLines < aiLines
       THEN MapSet(uniqueCommits, commitKey,
                   [codeLines |-> codeLines, aiLines |-> aiLines,
                    team |-> MapGet(uniqueCommits, commitKey).team,
                    contributor |-> row.Contributor])
       ELSE uniqueCommits

\* an entry that is also replaced by a row with equal AI lines
maxAIDedupStep_replacesOnTie(uniqueCommits, row) ==
    LET commitKey == CommitKey(row)
        codeLines == ParseIntOr0(row.CodeLines)
        aiLines == ParseIntOr0(row.AILines)
    IN IF ~MapHas(uniqueCommits, commitKey)
          \/ MapGet(uniqueCommits, commitKey).aiLines <= aiLines
       THEN MapSet(uniqueCommits, commitKey,
                   [codeLines |-> codeLines, aiLines |-> aiLines,
                    team |-> row.Team, contributor |-> row.Contributor])
       ELSE uniqueCommits

\* if (!uniqueCommits.has(commitKey) || uniqueCommits.get(commitKey).aiLines < aiLines)
maxAIDedupStep(uniqueCommits, row) ==
    LET commitKey == CommitKey(row)
        codeLines == ParseIntOr0(row.CodeLines)
        aiLines == ParseIntOr0(row.AILines)
    IN IF ~MapHas(uniqueCommits, commitKey)
          \/ MapGet(uniqueCommits, commitKey).aiLines < aiLines
       THEN MapSet(uniqueCommits, commitKey,
                   [codeLines |-> codeLines, aiLines |-> aiLines,
                    team |-> row.Team, contributor |-> row.Contributor])
       ELSE uniqueCommits

RECURSIVE maxAIUniqueCommits(_)
maxAIUniqueCommits(data) ==
    IF data = <<>> THEN <<>>
    ELSE maxAIDedupStep(maxAIUniqueCommits(SubSeq(data, 1, Len(data) - 1)),
                        data[Len(data)])

\* second pass: uniqueCommits.forEach(commit => teamStats[commit.team] ...)
RECURSIVE maxAITeamStats(_)
maxAITeamStats(uniqueCommits) ==
    IF uniqueCommits = <<>> THEN <<>>
    ELSE LET teamStats == maxAITeamStats(SubSeq(uniqueCommits, 1, Len(uniqueCommits) - 1))
             commit == uniqueCommits[Len(uniqueCommits)].value
             old == IF MapHas(teamStats, commit.team) THEN MapGet(teamStats, commit.team)
                    ELSE [totalCodeLines |-> 0, totalAILines |-> 0, commits |-> 0,
                          contributors |-> {}]
         IN MapSet(teamStats, commit.team,
                   [totalCodeLines |-> old.totalCodeLines + commit.codeLines,
                    totalAILines |-> old.totalAILines + commit.aiLines,
                    commits |-> old.commits + 1,
                    contributors |-> old.contributors \cup {commit.contributor}])

\* aggregateTeamDataWithMaxAI(data): both passes, then contributorCount and
\* aiPercentage per team (the contributor Sets are deleted)
aggregateTeamDataWithMaxAI(data) ==
    LET teamStats == maxAITeamStats(maxAIUniqueCommits(data))
    IN [i \in 1..Len(teamStats) |->
          [key |-> teamStats[i].key,
           value |-> [totalCodeLines |-> teamStats[i].value.totalCodeLines,
                      totalAILines |-> teamStats[i].value.totalAILines,
                      commits |-> teamStats[i].value.commits,
                      contributorCount |-> Cardinality(teamStats[i].value.contributors),
                      aiPercentage |-> Percentage(teamStats[i].value.totalAILines,
                                                  teamStats[i].value.totalCodeLines)]]]

\* ------------------------------------------------------------------------
\* State: the CSV files on disk, the validation script, the dashboard
\* ------------------------------------------------------------------------
VARIABLES
    pc,                 \* "files", then the progress of loadAllAvailableFiles
    csvFiles,           \* rows of the files in output/daily-batches, in listing order
    validatedTeamStats, \* result of the validation script, <<>> before it ran
    timeSeriesData,     \* this.timeSeriesData (<<>> is null)
    dailyBatchesData,   \* this.dailyBatchesData (<<>> is null)
    teamFilter,         \* value of the #teamFilter select ("" = all)
    contributorFilter,  \* value of #contributorFilter
    repositoryFilter,   \* value of #repositoryFilter
    startDate,          \* value of #startDate (0 = empty)
    endDate,            \* value of #endDate (0 = empty)
    filteredData,       \* this.filteredData
    summaryStats,       \* summary cards drawn by renderStats
    teamsChart,         \* AI Teams view drawn by renderCharts
    validationTable     \* contributions table statistics

dashVars == <<timeSeriesData, dailyBatchesData, teamFilter,
              contributorFilter, repositoryFilter, startDate, endDate,
              filteredData, summaryStats, teamsChart, validationTable>>

filesVars == <<pc, csvFiles, validatedTeamStats>>

\* the row of the time-series summary file
TimeSeriesRows ==
    << [Date |-> 1, Team |-> Fulfillment, DailyCodeLines |-> 231,
        DailyAILines |-> 15, CommitCount |-> 1] >>

SeqMin(s) == CHOOSE x \in { s[i] : i \in 1..Len(s) } : \A j \in 1..Len(s) : x <= s[j]
SeqMax(s) == CHOOSE x \in { s[i] : i \in 1..Len(s) } : \A j \in 1..Len(s) : x >= s[j]

\* applyFilters(): the filter predicates of the time-series and the
\* daily-batch data (time-series rows carry no Contributor or Repository)
filterTimeSeries(data, team, start, end) ==
    SelectSeq(data, LAMBDA row :
        /\ ~(team # "" /\ row.Team # team)
        /\ ~(start # 0 /\ row.Date < start)
        /\ ~(end # 0 /\ row.Date > end))

filterDailyBatches(data, team, contributor, repository, start, end) ==
    SelectSeq(data, LAMBDA row :
        /\ ~(team # "" /\ row.Team # team)
        /\ ~(contributor # "" /\ row.Contributor # contributor)
        /\ ~(repository # "" /\ row.Repository # repository)
        /\ ~(start # 0 /\ row.Date < start)
        /\ ~(end # 0 /\ row.Date > end))

\* applyFilters() followed by updateDashboard(): renderStats, renderCharts,
\* renderValidationTable, for the given data and filter values
applyFilters(ts, daily, team, contributor, repository, start, end) ==
    LET fts == filterTimeSeries(ts, team, start, end)
        fdb == filterDailyBatches(daily, team, contributor, repository, start, end)
    IN /\ filteredData' = [timeSeries |-> fts, dailyBatches |-> fdb]
       /\ summaryStats' = calculateSummaryStats(fdb, fts)
       /\ teamsChart' = renderAITeamsChart(fdb, team)
       /\ validationTable' = renderValidationTable(fdb)

\* updateTeamFilter, updateContributorFilter, updateRepositoryFilter rebuild
\* the option lists (the selection falls back to ""); updateDateRange sets
\* both date inputs to the first and last day of the loaded data; then
\* applyFilters()
afterLoad(ts, daily) ==
    LET dates == [i \in 1..Len(ts) |-> ts[i].Date] \o [i \in 1..Len(daily) |-> daily[i].Date]
        start == IF Len(dates) = 0 THEN startDate ELSE SeqMin(dates)
        end == IF Len(dates) = 0 THEN endDate ELSE SeqMax(dates)
    IN /\ teamFilter' = ""
       /\ contributorFilter' = ""
       /\ repositoryFilter' = ""
       /\ startDate' = start
       /\ endDate' = end
       /\ applyFilters(ts, daily, "", "", "", start, end)

\* ------------------------------------------------------------------------
\* Report pipeline: calculateTeamDailyStats and the CSV writers
\* ------------------------------------------------------------------------
\* commits one repository can hold in the analysed period
MaxCommits == 2

\* const teams of collectStats, in analysis order: name and slug
Teams == << [name |-> Fulfillment, slug |-> "fulfillment"],
            [name |-> QaTeam, slug |-> "qa-automation-team"] >>

Logins == {"carlos", "emestanza"}
Days == {1, 2}

\* what GET /orgs/:org/teams/:slug/members answers: an error, or the logins
MemberAnswers ==
    { [ok |-> FALSE, logins |-> {}], [ok |-> TRUE, logins |-> {}],
      [ok |-> TRUE, logins |-> {"carlos"}], [ok |-> TRUE, logins |-> {"emestanza"}] }

\* what the team Copilot metrics endpoint answers: an error, or daily metrics
\* (day |-> total_code_lines_accepted)
CopilotAnswers ==
    { [ok |-> FALSE, daily |-> <<>>], [ok |-> TRUE, daily |-> <<>>],
      [ok |-> TRUE, daily |-> << [date |-> 1, lines |-> 5] >>],
      [ok |-> TRUE, daily |-> << [date |-> 2, lines |-> 50] >>] }

\* a commit of the repository with the stats of its detail request
CommitShapes ==
    { [author |-> a, date |-> d, additions |-> st[1], deletions |-> st[2]] :
        a \in Logins, d \in Days, st \in { <<0, 0>>, <<7, 3>>, <<2, 1>> } }

ShaOf(i) == IF i = 1 THEN "sha1" ELSE IF i = 2 THEN "sha2" ELSE IF i = 3 THEN "sha3" ELSE "sha4"

RepoName == "order-handler"

VARIABLES
    apiMembers,         \* team slug -> answer of the members endpoint
    apiCommits,         \* commits of the repository, newest first
    apiCopilot,         \* team slug -> answer of the Copilot metrics endpoint
    ppc,                \* position in the pipeline
    teamIdx,            \* for (const team of teams): next team
    dateIdx,            \* for (const date of sortedDates): next date
    teamMembersCache,   \* module-level Map of getTeamMembers
    teamDailyStats,     \* teamStats built by calculateTeamDailyStats
    dailyBatchCsv,      \* rows of the daily-batch files written so far
    timeSeriesCsv,      \* rows of the time-series CSV
    teamPerformanceCsv  \* rows of the team-performance CSV

pipeVars == <<apiMembers, apiCommits, apiCopilot, ppc, teamIdx, dateIdx,
              teamMembersCache, teamDailyStats, dailyBatchCsv, timeSeriesCsv,
              teamPerformanceCsv>>

\* Math.round(a / b) for a >= 0, b > 0
RoundDiv(a, b) == (2 * a + b) \div (2 * b)

\* the percentage cut off after the first decimal instead of rounded
ToFixed1Pct_truncated(a, b) == (a * 1000) \div b

\* ((a / b) * 100).toFixed(1), in tenths of a percent
ToFixed1Pct(a, b) == RoundDiv(a * 1000, b)

\* getTeamMembers(teamSlug): cached list, else the fetched list (cached), else
\* [] on a failed request (not cached)
getTeamMembers(cache, slug) ==
    IF MapHas(cache, slug) THEN [members |-> MapGet(cache, slug), cache |-> cache]
    ELSE IF apiMembers[slug].ok
    THEN [members |-> apiMembers[slug].logins,
          cache |-> MapSet(cache, slug, apiMembers[slug].logins)]
    ELSE [members |-> {}, cache |-> cache]

\* getRepoCommitsForTeam: the commits whose author is a team member (every
\* commit when the member list is empty), with the stats of the detail request
getRepoCommitsForTeam(teamMembers) ==
    LET all == [i \in 1..Len(apiCommits) |->
                  [sha |-> ShaOf(i), author |-> apiCommits[i].author,
                   date |-> apiCommits[i].date,
                   additions |-> apiCommits[i].additions,
                   deletions |-> apiCommits[i].deletions]]
    IN SelectSeq(all, LAMBDA c : teamMembers = {} \/ c.author \in teamMembers)

\* getTeamDailyCommits: dailyStats[date] = { totalLines, commits, contributions }
getTeamDailyCommits(members) ==
    LET repoCommits == getRepoCommitsForTeam(members)
        dates == { repoCommits[i].date : i \in 1..Len(repoCommits) }
    IN [d \in dates |->
          LET ofDay == SelectSeq(repoCommits, LAMBDA c : c.date = d)
          IN [totalLines |-> SumSeq([i \in 1..Len(ofDay) |->
                                        ofDay[i].additions + ofDay[i].deletions]),
              commits |-> Len(ofDay),
              contributions |->
                 [i \in 1..Len(ofDay) |->
                    [author |-> ofDay[i].author,
                     additions |-> ofDay[i].additions,
                     deletions |-> ofDay[i].deletions,
                     totalLines |-> ofDay[i].additions + ofDay[i].deletions,
                     commitSha |-> ofDay[i].sha,
                     repository |-> RepoName]]]]

\* calculateTeamTotalCodeLines: dailyCodeStats and their total
calculateTeamTotalCodeLines(members) ==
    LET teamDailyCommits == getTeamDailyCommits(members)
        dates == DOMAIN teamDailyCommits
        dailyCodeStats == [d \in dates |->
                             [totalCodeLines |-> teamDailyCommits[d].totalLines,
                              contributions |-> teamDailyCommits[d].contributions]]
    IN [totalCodeLines |->
            SumSeq([i \in 1..Len(getRepoCommitsForTeam(members)) |->
                      getRepoCommitsForTeam(members)[i].additions
                      + getRepoCommitsForTeam(members)[i].deletions]),
        dailyCodeStats |-> dailyCodeStats]

\* calculateTeamCopilotTotalLines: dailyCopilotStats and their total, empty
\* when the metrics request failed
calculateTeamCopilotTotalLines(slug) ==
    LET copilotMetrics == apiCopilot[slug]
        daily == IF copilotMetrics.ok THEN copilotMetrics.daily ELSE <<>>
        dates == { daily[i].date : i \in 1..Len(daily) }
    IN [totalCopilotLines |-> SumSeq([i \in 1..Len(daily) |-> daily[i].lines]),
        dailyCopilotStats |->
            [d \in dates |->
               [copilotLines |->
                  (CHOOSE m \in { daily[i] : i \in 1..Len(daily) } : m.date = d).lines]]]

\* calculateTeamDailyStats: the body of one iteration of the loop over teams
teamEntry(team, members) ==
    LET codeStats == calculateTeamTotalCodeLines(members)
        copilotStats == calculateTeamCopilotTotalLines(team.slug)
        allDates == DOMAIN codeStats.dailyCodeStats \cup DOMAIN copilotStats.dailyCopilotStats
    IN [slug |-> team.slug,
        members |-> Cardinality(members),
        dailyStats |->
           [d \in allDates |->
              LET dailyCodeLines ==
                      IF d \in DOMAIN codeStats.dailyCodeStats
                      THEN codeStats.dailyCodeStats[d].totalCodeLines ELSE 0
                  dailyCopilotLines ==
                      IF d \in DOMAIN copilotStats.dailyCopilotStats
                      THEN copilotStats.dailyCopilotStats[d].copilotLines ELSE 0
                  contributions ==
                      IF d \in DOMAIN codeStats.dailyCodeStats
                      THEN codeStats.dailyCodeStats[d].contributions ELSE <<>>
              IN [date |-> d, totalCodeLines |-> dailyCodeLines,
                  totalCopilotLines |-> dailyCopilotLines,
                  copilotLines |-> dailyCopilotLines,
                  contributions |-> contributions]],
        totalCodeLines |-> codeStats.totalCodeLines,
        totalCopilotLines |-> copilotStats.totalCopilotLines]

\* Array.from(allDates).sort() over every team's dailyStats
RECURSIVE SortedSeqOf(_)
SortedSeqOf(S) ==
    IF S = {} THEN <<>>
    ELSE LET m == CHOOSE x \in S : \A y \in S : x <= y
         IN <<m>> \o SortedSeqOf(S \ {m})

sortedDates(ts) ==
    SortedSeqOf(UNION { DOMAIN ts[i].value.dailyStats : i \in 1..Len(ts) })

RECURSIVE Flatten(_)
Flatten(ss) == IF ss = <<>> THEN <<>> ELSE Flatten(SubSeq(ss, 1, Len(ss) - 1)) \o ss[Len(ss)]

\* saveDailyBatchCSV: the rows of one team for one date
dailyBatchRowsOfTeam(teamName, stats, date) ==
    IF date \notin DOMAIN stats.dailyStats THEN <<>>
    ELSE LET dayStats == stats.dailyStats[date]
         IN IF Len(dayStats.contributions) > 0
            THEN [i \in 1..Len(dayStats.contributions) |->
                    LET contribution == dayStats.contributions[i]
                        \* Math.round(contribution.totalLines * teamAiRatio)
                        estimatedAiLines ==
                            IF dayStats.totalCodeLines > 0
                            THEN RoundDiv(contribution.totalLines * dayStats.copilotLines,
                                          dayStats.totalCodeLines)
                            ELSE 0
                    IN [Date |-> date, Team |-> teamName, TeamSlug |-> stats.slug,
                        TeamMembers |-> stats.members,
                        Repository |-> contribution.repository,
                        Contributor |-> contribution.author,
                        CommitSHA |-> contribution.commitSha,
                        CodeLines |-> contribution.totalLines,
                        AILines |-> estimatedAiLines,
                        AIPercentage |->
                            IF contribution.totalLines > 0
                            THEN ToFixed1Pct(estimatedAiLines, contribution.totalLines)
                            ELSE 0,
                        Additions |-> contribution.additions,
                        Deletions |-> contribution.deletions]]
            ELSE IF dayStats.totalCodeLines > 0
            THEN << [Date |-> date, Team |-> teamName, TeamSlug |-> stats.slug,
                     TeamMembers |-> stats.members,
                     Repository |-> "Multiple", Contributor |-> "Team Summary",
                     CommitSHA |-> "N/A",
                     CodeLines |-> dayStats.totalCodeLines,
                     AILines |-> dayStats.copilotLines,
                     AIPercentage |-> ToFixed1Pct(dayStats.copilotLines,
                                                  dayStats.totalCodeLines),
                     Additions |-> dayStats.totalCodeLines, Deletions |-> 0] >>
            ELSE <<>>

\* saveDailyBatchCSV(results, org, date, outputDir): rows of the file of one date
saveDailyBatchCSV(ts, date) ==
    Flatten([i \in 1..Len(ts) |-> dailyBatchRowsOfTeam(ts[i].key, ts[i].value, date)])

\* the counters restarted on every date instead of carried on
cumulativeUpTo_restarted(stats, date) ==
    IF date \in DOMAIN stats.dailyStats
    THEN [cumulativeCodeLines |-> stats.dailyStats[date].totalCodeLines,
          cumulativeAILines |-> stats.dailyStats[date].copilotLines]
    ELSE [cumulativeCodeLines |-> 0, cumulativeAILines |-> 0]

\* cumulative code and AI lines of a team up to and including a date
cumulativeUpTo(stats, date) ==
    LET past == { d \in DOMAIN stats.dailyStats : d <= date }
        ds == SortedSeqOf(past)
    IN [cumulativeCodeLines |->
            SumSeq([i \in 1..Len(ds) |-> stats.dailyStats[ds[i]].totalCodeLines]),
        cumulativeAILines |->
            SumSeq([i \in 1..Len(ds) |-> stats.dailyStats[ds[i]].copilotLines])]

\* saveTimeSeriesCSV: the row of one team for one date
timeSeriesRow(teamName, stats, date) ==
    LET cum == cumulativeUpTo(stats, date)
        cumulativeAiPercentage ==
            IF cum.cumulativeCodeLines > 0
            THEN ToFixed1Pct(cum.cumulativeAILines, cum.cumulativeCodeLines) ELSE 0
    IN IF date \in DOMAIN stats.dailyStats
       THEN LET dayStats == stats.dailyStats[date]
            IN [Date |-> date, Team |-> teamName, TeamSlug |-> stats.slug,
                DailyCodeLines |-> dayStats.totalCodeLines,
                DailyAILines |-> dayStats.copilotLines,
                DailyAIPercentage |->
                    IF dayStats.totalCodeLines > 0
                    THEN ToFixed1Pct(dayStats.copilotLines, dayStats.totalCodeLines)
                    ELSE 0,
                CumulativeCodeLines |-> cum.cumulativeCodeLines,
                CumulativeAILines |-> cum.cumulativeAILines,
                CumulativeAIPercentage |-> cumulativeAiPercentage,
                ActiveContributors |->
                    Cardinality({ dayStats.contributions[i].author :
                                    i \in 1..Len(dayStats.contributions) }),
                CommitCount |-> Len(dayStats.contributions)]
       ELSE [Date |-> date, Team |-> teamName, TeamSlug |-> stats.slug,
             DailyCodeLines |-> 0, DailyAILines |-> 0, DailyAIPercentage |-> 0,
             CumulativeCodeLines |-> cum.cumulativeCodeLines,
             CumulativeAILines |-> cum.cumulativeAILines,
             CumulativeAIPercentage |-> cumulativeAiPercentage,
             ActiveContributors |-> 0, CommitCount |-> 0]

\* rows written only for the teams that have statistics on the date
saveTimeSeriesCSV_activeOnly(ts) ==
    LET dates == sortedDates(ts)
    IN Flatten([k \in 1..Len(dates) |->
                  LET active == SelectSeq(ts, LAMBDA e : dates[k] \in DOMAIN e.value.dailyStats)
                  IN [i \in 1..Len(active) |->
                        timeSeriesRow(active[i].key, active[i].value, dates[k])]])

\* saveTimeSeriesCSV: sortedDates.forEach(date => teams.forEach(...))
saveTimeSeriesCSV(ts) ==
    LET dates == sortedDates(ts)
    IN Flatten([k \in 1..Len(dates) |->
                  [i \in 1..Len(ts) |-> timeSeriesRow(ts[i].key, ts[i].value, dates[k])]])

\* saveTeamPerformanceSummaryCSV: one row per team
saveTeamPerformanceSummaryCSV(ts) ==
    [i \in 1..Len(ts) |->
       LET stats == ts[i].value
           days == SortedSeqOf(DOMAIN stats.dailyStats)
       IN [Team |-> ts[i].key, TeamSlug |-> stats.slug, Members |-> stats.members,
           TotalCodeLines |-> stats.totalCodeLines,
           TotalAILines |-> stats.totalCopilotLines,
           AIPercentage |->
               IF stats.totalCodeLines > 0
               THEN ToFixed1Pct(stats.totalCopilotLines, stats.totalCodeLines) ELSE 0,
           ActiveDays |-> Len(days),
           TotalCommits |->
               SumSeq([k \in 1..Len(days) |-> Len(stats.dailyStats[days[k]].contributions)]),
           UniqueContributors |->
               Cardinality(UNION { { stats.dailyStats[d].contributions[j].author :
                                       j \in 1..Len(stats.dailyStats[d].contributions) } :
                                   d \in DOMAIN stats.dailyStats })]]

\* ------------------------------------------------------------------------
\* Per-commit estimate: analyzeCommitForCopilot
\* ------------------------------------------------------------------------
\* largest additions and largest totalCodeLinesAccepted of the small inputs;
\* the inputs of the unit test (100 additions, 500 and 1000 accepted lines)
\* are added to them.  On all of these inputs the double-precision product
\* additions * ratio rounds as the exact product does.
MaxAdditions == 8
MaxAccepted == 60

AdditionsDomain == (0..MaxAdditions) \cup {100}
AcceptedDomain == ((0 - 1)..MaxAccepted) \cup {500, 1000}

\* a commit: with or without a stats object
CommitInputs ==
    { [hasStats |-> FALSE, additions |-> 0, deletions |-> 0] }
    \cup { [hasStats |-> TRUE, additions |-> a, deletions |-> d] :
              a \in AdditionsDomain, d \in {0, 20} }

\* copilotMetrics: null, or { success, totalCodeLinesAccepted }
MetricsInputs ==
    { [present |-> FALSE, success |-> FALSE, totalCodeLinesAccepted |-> 0] }
    \cup { [present |-> TRUE, success |-> ok, totalCodeLinesAccepted |-> n] :
              ok \in BOOLEAN, n \in AcceptedDomain }

VARIABLES
    hpc,        \* "idle", "input", "analyzed"
    hCommit,    \* the commit argument
    hMetrics,   \* the copilotMetrics argument
    hResult     \* the object returned

heurVars == <<hpc, hCommit, hMetrics, hResult>>

\* the estimate rounded up instead of to the nearest integer
estimatedCopilotLines_roundedUp(additions, accepted) ==
    IF accepted >= 7 * additions THEN (7 * additions + 9) \div 10
    ELSE (accepted + 9) \div 10

\* the estimate without the 0.7 ceiling on the ratio
estimatedCopilotLines_uncapped(additions, accepted) == RoundDiv(accepted, 10)

\* Math.round(additions * Math.min(0.7, accepted / (additions * 10))), for
\* additions > 0 and accepted > 0: the ratio is 0.7 when accepted >= 7 *
\* additions, and additions * ratio is accepted / 10 otherwise
estimatedCopilotLines(additions, accepted) ==
    IF accepted >= 7 * additions THEN RoundDiv(7 * additions, 10)
    ELSE RoundDiv(accepted, 10)

\* the estimate made whatever copilotMetrics.success says
analyzeCommitForCopilot_ignoresSuccess(c, copilotMetrics) ==
    IF /\ copilotMetrics.present
       /\ copilotMetrics.totalCodeLinesAccepted > 0
       /\ c.hasStats
       /\ c.additions > 0
    THEN [isCopilot |-> TRUE,
          estimatedCopilotLines |->
              estimatedCopilotLines(c.additions, copilotMetrics.totalCodeLinesAccepted)]
    ELSE [isCopilot |-> FALSE, estimatedCopilotLines |-> 0]

\* analyzeCommitForCopilot(commit, copilotMetrics = null)
analyzeCommitForCopilot(c, copilotMetrics) ==
    IF /\ copilotMetrics.present
       /\ copilotMetrics.success
       /\ copilotMetrics.totalCodeLinesAccepted > 0
       /\ c.hasStats
       /\ c.additions > 0
    THEN [isCopilot |-> TRUE,
          estimatedCopilotLines |->
              estimatedCopilotLines(c.additions, copilotMetrics.totalCodeLinesAccepted)]
    ELSE [isCopilot |-> FALSE, estimatedCopilotLines |-> 0]

NoResult == [isCopilot |-> FALSE, estimatedCopilotLines |-> 0 - 1]

HeurIdle ==
    /\ hpc = "idle"
    /\ hCommit = [hasStats |-> FALSE, additions |-> 0, deletions |-> 0]
    /\ hMetrics = [present |-> FALSE, success |-> FALSE, totalCodeLinesAccepted |-> 0]
    /\ hResult = NoResult

\* ------------------------------------------------------------------------
\* Command line: index.js start-up checks and collectStats
\* ------------------------------------------------------------------------
\* a string as the sequence of its characters; <<>> is a value that is not
\* given (undefined, null or the empty string: all of them are falsy)
NotGiven == <<>>
IsoDate == <<"2", "0", "2", "3", "-", "0", "1", "-", "3", "1">>
ShortDate == <<"2", "0", "2", "3", "-", "1", "-", "1">>
SlashDate == <<"0", "1", "/", "3", "1", "/", "2", "0", "2", "3">>

Digits == {"0", "1", "2", "3", "4", "5", "6", "7", "8", "9"}

\* the regular expression without its anchors: any ten characters
MatchesDateFormat_lengthOnly(s) == Len(s) = 10

\* /^\d{4}-\d{2}-\d{2}$/.test(s)
MatchesDateFormat(s) ==
    /\ Len(s) = 10
    /\ \A i \in 1..10 : IF i \in {5, 8} THEN s[i] = "-" ELSE s[i] \in Digits

VARIABLES
    rpc,            \* position of the process
    argv,           \* what parseArgs finds: help, from (--from), to (--to)
    env,            \* process.env: GITHUB_TOKEN, START_DATE, END_DATE
    github,         \* what GitHub and the config files answer
    exitCode,       \* exit code of the process, NoExit while it runs
    collectResult,  \* "none" before collectStats returns, then "null" or "results"
    callLog         \* the checks and steps collectStats has run, in order

runVars == <<rpc, argv, env, github, exitCode, collectResult, callLog>>

NoExit == 0 - 1

\* const START_DATE = args.startDate || process.env.START_DATE || null
START_DATE ==
    IF argv.from # NotGiven THEN argv.from
    ELSE IF env.START_DATE # NotGiven THEN env.START_DATE ELSE NotGiven

\* const END_DATE = args.endDate || process.env.END_DATE || null
END_DATE ==
    IF argv.to # NotGiven THEN argv.to
    ELSE IF env.END_DATE # NotGiven THEN env.END_DATE ELSE NotGiven

RunIdle ==
    /\ rpc = "idle"
    /\ argv = [help |-> FALSE, from |-> NotGiven, to |-> NotGiven]
    /\ env = [GITHUB_TOKEN |-> FALSE, START_DATE |-> NotGiven, END_DATE |-> NotGiven]
    /\ github = [tokenValid |-> FALSE, orgFound |-> FALSE, repos |-> 0, teams |-> 0]
    /\ exitCode = NoExit
    /\ collectResult = "none"
    /\ callLog = <<>>

\* ------------------------------------------------------------------------
\* Paginated listing: the while loop of getRepoCommitsForTeam
\* ------------------------------------------------------------------------
\* params.per_page
PerPage == 100
\* while (hasMorePages && page <= 5)
PageLimit == 5
\* most commits the repository holds in the date range
MaxRepoCommits == 501

VARIABLES
    gpc,            \* "idle", "loop", "returned"
    repoCommits,    \* commits of the repository in the date range
    failingPage,    \* the page whose request fails, 0 when none does
    page,           \* let page
    hasMorePages,   \* let hasMorePages
    fetched         \* commits.length (the team member list is empty: all kept)

pageVars == <<gpc, repoCommits, failingPage, page, hasMorePages, fetched>>

\* response.data.length of GET .../commits?per_page=100&page=p
pageLength(total, p) ==
    IF total >= p * PerPage THEN PerPage
    ELSE IF total > (p - 1) * PerPage THEN total - (p - 1) * PerPage
    ELSE 0

PageIdle ==
    /\ gpc = "idle"
    /\ repoCommits = 0
    /\ failingPage = 0
    /\ page = 1
    /\ hasMorePages = TRUE
    /\ fetched = 0

\* ------------------------------------------------------------------------
\* Organization-wide totals: collectStats STEPS 1 to 4
\* ------------------------------------------------------------------------
\* most commits one repository lists in the date range
MaxListed == 2

\* repos.json
Repos == <<"order-handler", "billing-api">>

\* a commit of the listing with what GET .../commits/:sha answers for it: an
\* error, a body without stats, or a body with stats
ListedShapes ==
    { [author |-> a, detailOk |-> FALSE, hasStats |-> FALSE, additions |-> 0, deletions |-> 0] :
         a \in Logins }
    \cup { [author |-> a, detailOk |-> TRUE, hasStats |-> FALSE, additions |-> 0, deletions |-> 0] :
              a \in Logins }
    \cup { [author |-> a, detailOk |-> TRUE, hasStats |-> TRUE, additions |-> s[1], deletions |-> s[2]] :
              a \in Logins, s \in { <<7, 3>>, <<0, 5>> } }

\* what getCopilotMetrics(org, null, null, headers) returns
OrgCopilotAnswers ==
    { [present |-> TRUE, success |-> FALSE, totalCodeLinesAccepted |-> 0] }
    \cup { [present |-> TRUE, success |-> TRUE, totalCodeLinesAccepted |-> n] : n \in {0, 5, 50} }

VARIABLES
    cpc,                    \* "idle", "commits", "filter", "stats", "done"
    listings,               \* per repository, the commits GitHub lists
    targetMembers,          \* the logins isUserInTargetTeams answers true for
    orgCopilot,             \* the answer of getCopilotMetrics
    allCommits,             \* const allCommits
    teamFilteredCommits,    \* const teamFilteredCommits
    results                 \* results.commits and results.codeChanges

collectVars == <<cpc, listings, targetMembers, orgCopilot, allCommits,
                 teamFilteredCommits, results>>

\* the commit loop of one page: a commit whose detail request fails is
\* skipped, the others are pushed as { sha, author, date, additions,
\* deletions, message }
fetchCommitDetails_stopsAtFailure(listed, teamMembers) ==
    LET wanted == SelectSeq(listed, LAMBDA c : teamMembers = {} \/ c.author \in teamMembers)
        failures == { i \in 1..Len(wanted) : ~wanted[i].detailOk }
        kept == IF failures = {} THEN wanted
                ELSE SubSeq(wanted, 1, (CHOOSE i \in failures : \A j \in failures : i <= j) - 1)
    IN [i \in 1..Len(kept) |->
           [sha |-> kept[i].sha, author |-> kept[i].author,
            additions |-> IF kept[i].hasStats THEN kept[i].additions ELSE 0,
            deletions |-> IF kept[i].hasStats THEN kept[i].deletions ELSE 0]]

fetchCommitDetails(listed, teamMembers) ==
    LET kept == SelectSeq(listed, LAMBDA c :
                    /\ teamMembers = {} \/ c.author \in teamMembers
                    /\ c.detailOk)
    IN [i \in 1..Len(kept) |->
           [sha |-> kept[i].sha, author |-> kept[i].author,
            additions |-> IF kept[i].hasStats THEN kept[i].additions ELSE 0,
            deletions |-> IF kept[i].hasStats THEN kept[i].deletions ELSE 0]]

\* getAllCommits: for each repo, getRepoCommitsForTeam(org, repo, [], ...),
\* commit.repo = repo, concat
getAllCommits(ls) ==
    Flatten([r \in 1..Len(ls) |->
        LET ofRepo == fetchCommitDetails(ls[r], {})
        IN [i \in 1..Len(ofRepo) |->
               [sha |-> ofRepo[i].sha, author |-> ofRepo[i].author,
                additions |-> ofRepo[i].additions,
                deletions |-> ofRepo[i].deletions, repo |-> Repos[r]]]])

\* filterCommitsByTeamMembers
filterCommitsByTeamMembers(commits, members) ==
    SelectSeq(commits, LAMBDA c : c.author \in members)

\* what analyzeCommitForCopilot reads of a commit built by
\* getRepoCommitsForTeam: additions and deletions are properties of the
\* commit itself and it has no stats property, so commit.stats is undefined
statsOfFetchedCommit(c) == [hasStats |-> FALSE, additions |-> 0, deletions |-> 0]

\* calculateCodeStatsFromCommits
calculateCodeStatsFromCommits(commits, copilotMetrics) ==
    LET aiOf(c) == LET aiAnalysis == analyzeCommitForCopilot(statsOfFetchedCommit(c), copilotMetrics)
                   IN IF aiAnalysis.isCopilot THEN aiAnalysis.estimatedCopilotLines ELSE 0
    IN [totalAdditions |-> SumSeq([i \in 1..Len(commits) |-> commits[i].additions]),
        totalDeletions |-> SumSeq([i \in 1..Len(commits) |-> commits[i].deletions]),
        totalAILines |-> SumSeq([i \in 1..Len(commits) |-> aiOf(commits[i])])]

NoResults ==
    [commits |-> [total |-> 0, teamFiltered |-> 0],
     codeChanges |-> [additions |-> 0, deletions |-> 0, aiLines |-> 0, total |-> 0]]

CollectIdle ==
    /\ cpc = "idle"
    /\ listings = <<>>
    /\ targetMembers = {}
    /\ orgCopilot = [present |-> FALSE, success |-> FALSE, totalCodeLinesAccepted |-> 0]
    /\ allCommits = <<>>
    /\ teamFilteredCommits = <<>>
    /\ results = NoResults

\* ------------------------------------------------------------------------
\* Team-members cache: getTeamMembers and isUserInTargetTeams
\* ------------------------------------------------------------------------
\* isUserInTargetTeams calls of one run
MaxLookups == 3

\* organizations a run can be started for
Orgs == {"acme", "globex"}

VARIABLES
    kpc,            \* "idle", "run"
    cacheOrg,       \* const org of the run
    membersCache,   \* const teamMembersCache = new Map()
    lookups,        \* isUserInTargetTeams calls made so far
    lastCalls,      \* the getTeamMembers calls of the last isUserInTargetTeams
    lastAnswer      \* what the last isUserInTargetTeams returned

cacheVars == <<kpc, cacheOrg, membersCache, lookups, lastCalls, lastAnswer>>

\* const cacheKey = `${org}_${teamSlug}`
cacheKey(org, teamSlug) == org \o "_" \o teamSlug

\* getTeamMembers that asks GitHub on every call
lookupTeamMembers_alwaysAsks(cache, org, teamSlug, answer) ==
    IF answer.ok
    THEN [members |-> answer.logins, requested |-> TRUE,
          cache |-> MapSet(cache, cacheKey(org, teamSlug), answer.logins)]
    ELSE [members |-> {}, requested |-> TRUE, cache |-> cache]

\* getTeamMembers(teamSlug, org, headers), answer being what the members
\* endpoint answers if it is asked: the list returned, whether a request was
\* sent, and the cache afterwards
lookupTeamMembers(cache, org, teamSlug, answer) ==
    IF MapHas(cache, cacheKey(org, teamSlug))
    THEN [members |-> MapGet(cache, cacheKey(org, teamSlug)), requested |-> FALSE,
          cache |-> cache]
    ELSE IF answer.ok
    THEN [members |-> answer.logins, requested |-> TRUE,
          cache |-> MapSet(cache, cacheKey(org, teamSlug), answer.logins)]
    ELSE [members |-> {}, requested |-> TRUE, cache |-> cache]

\* isUserInTargetTeams(username, teams, org, headers) from team i on, after
\* the calls made for the teams before it
RECURSIVE isUserInTargetTeams(_, _, _, _, _, _)
isUserInTargetTeams(username, org, answers, i, cache, calls) ==
    IF i > Len(Teams) THEN [found |-> FALSE, cache |-> cache, calls |-> calls]
    ELSE LET r == lookupTeamMembers(cache, org, Teams[i].slug, answers[i])
             made == Append(calls, [org |-> org, slug |-> Teams[i].slug,
                                    members |-> r.members, requested |-> r.requested,
                                    ok |-> r.requested /\ answers[i].ok])
         IN IF username \in r.members
            THEN [found |-> TRUE, cache |-> r.cache, calls |-> made]
            ELSE isUserInTargetTeams(username, org, answers, i + 1, r.cache, made)

CacheIdle ==
    /\ kpc = "idle"
    /\ cacheOrg = ""
    /\ membersCache = <<>>
    /\ lookups = 0
    /\ lastCalls = <<>>
    /\ lastAnswer = FALSE

\* ------------------------------------------------------------------------
\* Deduplication keys of rows whose fields contain the separator
\* ------------------------------------------------------------------------
\* rows of one daily-batch file given to both deduplications
MaxKeyRows == 2

\* rows whose Contributor or Repository cell contains '_'
SeparatorRows ==
    { mkRow(1, t, repo, contributor, sha, s[1], s[2]) :
         t \in {Fulfillment, QaTeam},
         repo \in {"api", "def5678_api"},
         contributor \in {"dev", "dev_abc1234"},
         sha \in {"abc1234", "def5678"},
         s \in { <<100, 20>>, <<40, 8>> } }

VARIABLES
    qpc,            \* "idle", "rows", "summarised", "validated"
    keyRows,        \* the parsed rows
    keySummary,     \* what calculateSummaryStats computes from them
    keyValidated    \* what aggregateTeamDataWithMaxAI computes from them

keyVars == <<qpc, keyRows, keySummary, keyValidated>>

KeysIdle ==
    /\ qpc = "idle"
    /\ keyRows = <<>>
    /\ keySummary = DefaultStats
    /\ keyValidated = <<>>

\* ------------------------------------------------------------------------
\* Copilot metrics window: getCopilotMetrics and getTeamCopilotMetrics
\* ------------------------------------------------------------------------
\* Time is counted in half days: a YYYY-MM-DD date parses to midnight, an
\* even number, and the clock of the run can stand at midnight or at noon.
\* last calendar day of the dates a run can be given
MaxDay == 40

\* 28 * 24 * 60 * 60 * 1000 milliseconds
MaxPastHalfDays == 56

\* startDate or endDate not given (null)
NoDate == 0 - 1

DateInputs == {NoDate} \cup { 2 * d : d \in 1..MaxDay }

\* new Date() when the request is built
Clocks == 64..72

VARIABLES
    wpc,            \* "idle", "args", "sent", "sentTeam"
    clock,          \* new Date()
    fromDate,       \* the startDate argument
    toDate,         \* the endDate argument
    copilotParams   \* params of the request sent

windowVars == <<wpc, clock, fromDate, toDate, copilotParams>>

NoParams == [hasSince |-> FALSE, since |-> 0, hasUntil |-> FALSE, until |-> 0]

\* params.since and params.until as both functions build them
copilotWindow(requestedStart, requestedEnd, now) ==
    LET maxPastDate == now - MaxPastHalfDays
        actualStart == IF requestedStart > maxPastDate THEN requestedStart ELSE maxPastDate
        actualEnd == IF requestedEnd < now THEN requestedEnd ELSE now
    IN [hasSince |-> requestedStart # NoDate,
        since |-> IF requestedStart # NoDate THEN actualStart ELSE 0,
        hasUntil |-> requestedEnd # NoDate,
        until |-> IF requestedEnd # NoDate THEN actualEnd ELSE 0]

WindowIdle ==
    /\ wpc = "idle"
    /\ clock = 0
    /\ fromDate = NoDate
    /\ toDate = NoDate
    /\ copilotParams = NoParams

\* ------------------------------------------------------------------------
\* Merged pull requests of one repository: getRepoMergedPRs
\* ------------------------------------------------------------------------
\* closed pull requests of the repository that the model follows one by one;
\* a full page of 100 holds, besides them, closed pull requests that were
\* never merged
MaxPRs == 3

\* latest instant of the merge and update times
MaxTime == 3

\* merged_at is null
NotMerged == 0

\* a closed pull request: merged_at, updated_at (a merge updates the pull
\* request, so merged_at <= updated_at), and whether it is the last item of
\* a page of 100
PrShapes ==
    { s \in [mergedAt : 0..MaxTime, updatedAt : 1..MaxTime, endsPage : BOOLEAN] :
         s.mergedAt <= s.updatedAt }

VARIABLES
    prc,            \* "idle", "loop", "returned"
    prList,         \* what GitHub lists, sort: 'updated', direction: 'desc'
    sinceDate,      \* the startDate argument
    untilDate,      \* the endDate argument
    prFailingPage,  \* the page whose request fails, 0 when none does
    prFailStatus,   \* the HTTP status of that failure
    prPage,         \* let page
    prHasMorePages, \* let hasMorePages
    allPRs,         \* let allPRs: the positions in prList of the PRs kept
    prReturned      \* the array returned

prVars == <<prc, prList, sinceDate, untilDate, prFailingPage, prFailStatus,
            prPage, prHasMorePages, allPRs, prReturned>>

\* positions of the listing that end a page of 100
pageEnds(list) == SelectSeq([i \in 1..Len(list) |-> i], LAMBDA i : list[i].endsPage)

\* the positions of the followed pull requests on page p
pageItems(list, p) ==
    LET ends == pageEnds(list)
        first == IF p = 1 THEN 1
                 ELSE IF p - 1 <= Len(ends) THEN ends[p - 1] + 1 ELSE Len(list) + 1
        last == IF p <= Len(ends) THEN ends[p] ELSE Len(list)
    IN IF p > Len(ends) + 1 THEN <<>> ELSE [k \in 1..(last - first + 1) |-> first + k - 1]

\* response.data.length of page p
prPageLength(list, p) ==
    IF p <= Len(pageEnds(list)) THEN PerPage ELSE Len(pageItems(list, p))

\* the filter of one page: merged, and merged within the date range
mergedInRange(pr, startD, endD) ==
    /\ pr.mergedAt # NotMerged
    /\ startD = NoDate \/ pr.mergedAt >= startD
    /\ endD = NoDate \/ pr.mergedAt <= endD

\* a stop that also fires when the last item was updated at the start date
goneBeyondRange_inclusive(lastUpdatedAt, startD) ==
    startD # NoDate /\ lastUpdatedAt <= startD

\* startDate && oldestPRDate < new Date(startDate)
goneBeyondRange(lastUpdatedAt, startD) ==
    startD # NoDate /\ lastUpdatedAt < startD

PrIdle ==
    /\ prc = "idle"
    /\ prList = <<>>
    /\ sinceDate = NoDate
    /\ untilDate = NoDate
    /\ prFailingPage = 0
    /\ prFailStatus = 0
    /\ prPage = 1
    /\ prHasMorePages = TRUE
    /\ allPRs = <<>>
    /\ prReturned = <<>>

\* the programs modelled after the paginated listing
furtherVars == <<collectVars, cacheVars, keyVars, windowVars, prVars>>
FurtherIdle ==
    /\ CollectIdle
    /\ CacheIdle
    /\ KeysIdle
    /\ WindowIdle
    /\ PrIdle

\* the programs modelled up to the paginated listing
earlierVars == <<filesVars, dashVars, pipeVars, heurVars, runVars, pageVars>>

\* the variables outside each of the programs
outsideDashboard == <<pipeVars, heurVars, runVars, pageVars, furtherVars>>
outsidePipeline == <<filesVars, dashVars, heurVars, runVars, pageVars, furtherVars>>
outsideHeuristic == <<filesVars, dashVars, pipeVars, runVars, pageVars, furtherVars>>
outsideRun == <<filesVars, dashVars, pipeVars, heurVars, pageVars, furtherVars>>
outsidePaging == <<filesVars, dashVars, pipeVars, heurVars, runVars, furtherVars>>
outsideCollect == <<earlierVars, cacheVars, keyVars, windowVars, prVars>>
outsideCache == <<earlierVars, collectVars, keyVars, windowVars, prVars>>
outsideKeys == <<earlierVars, collectVars, cacheVars, windowVars, prVars>>
outsideWindow == <<earlierVars, collectVars, cacheVars, keyVars, prVars>>
outsidePRs == <<earlierVars, collectVars, cacheVars, keyVars, windowVars>>

PipeIdle ==
    /\ apiMembers = [s \in {} |-> 0]
    /\ apiCommits = <<>>
    /\ apiCopilot = [s \in {} |-> 0]
    /\ ppc = "idle"
    /\ teamIdx = 0
    /\ dateIdx = 0
    /\ teamMembersCache = <<>>
    /\ teamDailyStats = <<>>
    /\ dailyBatchCsv = <<>>
    /\ timeSeriesCsv = <<>>
    /\ teamPerformanceCsv = <<>>

Init ==
    /\ pc = "files"
    /\ csvFiles = <<>>
    /\ validatedTeamStats = <<>>
    /\ timeSeriesData = <<>>
    /\ dailyBatchesData = <<>>
    /\ teamFilter = ""
    /\ contributorFilter = ""
    /\ repositoryFilter = ""
    /\ startDate = 0
    /\ endDate = 0
    /\ filteredData = [timeSeries |-> <<>>, dailyBatches |-> <<>>]
    /\ summaryStats = DefaultStats
    /\ teamsChart = [shown |-> FALSE, teamData |-> <<>>, teamAIData |-> <<>>]
    /\ validationTable = renderValidationTable(<<>>)
    /\ PipeIdle
    /\ HeurIdle
    /\ RunIdle
    /\ PageIdle
    /\ FurtherIdle

\* a daily-batch file left in the output directory by a run of the report
\* pipeline
AddDailyBatchFile ==
    /\ pc = "files"
    /\ Len(csvFiles) < MaxRows
    /\ \E row \in RowDomain : csvFiles' = Append(csvFiles, row)
    /\ UNCHANGED <<pc, validatedTeamStats>>
    /\ UNCHANGED dashVars
    /\ UNCHANGED outsideDashboard

\* the validation script: parseCSV of the consolidated daily-batch rows, then
\* aggregateTeamDataWithMaxAI.  The script and the dashboard share nothing
\* but the files, so it is run before the dashboard is opened.
RunValidationScript ==
    /\ pc = "files"
    /\ pc' = "loadTimeSeries"
    /\ validatedTeamStats' = aggregateTeamDataWithMaxAI(csvFiles)
    /\ UNCHANGED csvFiles
    /\ UNCHANGED dashVars
    /\ UNCHANGED outsideDashboard

\* loadAllAvailableFiles: loadAndCombineFiles(timeSeriesFiles, 'timeSeries')
LoadTimeSeries ==
    /\ pc = "loadTimeSeries"
    /\ pc' = "loadDailyBatches"
    /\ timeSeriesData' = TimeSeriesRows
    /\ afterLoad(TimeSeriesRows, dailyBatchesData)
    /\ UNCHANGED <<csvFiles, validatedTeamStats, dailyBatchesData>>
    /\ UNCHANGED outsideDashboard

\* loadAllAvailableFiles: loadAndCombineFiles(csvFiles.dailyBatches,
\* 'dailyBatches'): every file is fetched and parsed in listing order; the
\* combined rows are stored and the dashboard is redrawn, unless there is no row
LoadDailyBatches ==
    /\ pc = "loadDailyBatches"
    /\ pc' = "ready"
    /\ IF Len(csvFiles) > 0
       THEN /\ dailyBatchesData' = csvFiles
            /\ afterLoad(timeSeriesData, csvFiles)
       ELSE UNCHANGED <<dailyBatchesData, teamFilter, contributorFilter,
                        repositoryFilter, startDate, endDate, filteredData,
                        summaryStats, teamsChart, validationTable>>
    /\ UNCHANGED <<csvFiles, validatedTeamStats, timeSeriesData>>
    /\ UNCHANGED outsideDashboard

TeamOptions ==
    {""} \cup { timeSeriesData[i].Team : i \in 1..Len(timeSeriesData) }
         \cup { dailyBatchesData[i].Team : i \in 1..Len(dailyBatchesData) }
ContributorOptions ==
    {""} \cup { dailyBatchesData[i].Contributor : i \in 1..Len(dailyBatchesData) }
RepositoryOptions ==
    {""} \cup { dailyBatchesData[i].Repository : i \in 1..Len(dailyBatchesData) }
\* the date inputs accept the days between the first and the last day of the
\* loaded data (their min and max attributes)
DateOptions ==
    { timeSeriesData[i].Date : i \in 1..Len(timeSeriesData) }
    \cup { dailyBatchesData[i].Date : i \in 1..Len(dailyBatchesData) }

\* 'change' listeners of the five filter controls: each calls applyFilters()
ChangeTeamFilter ==
    /\ pc = "ready"
    /\ \E v \in TeamOptions \ {teamFilter} :
          /\ teamFilter' = v
          /\ applyFilters(timeSeriesData, dailyBatchesData, v, contributorFilter,
                          repositoryFilter, startDate, endDate)
    /\ UNCHANGED <<pc, csvFiles, validatedTeamStats, timeSeriesData, dailyBatchesData,
                   contributorFilter, repositoryFilter, startDate, endDate>>
    /\ UNCHANGED outsideDashboard

ChangeContributorFilter ==
    /\ pc = "ready"
    /\ \E v \in ContributorOptions \ {contributorFilter} :
          /\ contributorFilter' = v
          /\ applyFilters(timeSeriesData, dailyBatchesData, teamFilter, v,
                          repositoryFilter, startDate, endDate)
    /\ UNCHANGED <<pc, csvFiles, validatedTeamStats, timeSeriesData, dailyBatchesData,
                   teamFilter, repositoryFilter, startDate, endDate>>
    /\ UNCHANGED outsideDashboard

ChangeRepositoryFilter ==
    /\ pc = "ready"
    /\ \E v \in RepositoryOptions \ {repositoryFilter} :
          /\ repositoryFilter' = v
          /\ applyFilters(timeSeriesData, dailyBatchesData, teamFilter,
                          contributorFilter, v, startDate, endDate)
    /\ UNCHANGED <<pc, csvFiles, validatedTeamStats, timeSeriesData, dailyBatchesData,
                   teamFilter, contributorFilter, startDate, endDate>>
    /\ UNCHANGED outsideDashboard

ChangeStartDate ==
    /\ pc = "ready"
    /\ \E d \in DateOptions \ {startDate} :
          /\ startDate' = d
          /\ applyFilters(timeSeriesData, dailyBatchesData, teamFilter,
                          contributorFilter, repositoryFilter, d, endDate)
    /\ UNCHANGED <<pc, csvFiles, validatedTeamStats, timeSeriesData, dailyBatchesData,
                   teamFilter, contributorFilter, repositoryFilter, endDate>>
    /\ UNCHANGED outsideDashboard

ChangeEndDate ==
    /\ pc = "ready"
    /\ \E d \in DateOptions \ {endDate} :
          /\ endDate' = d
          /\ applyFilters(timeSeriesData, dailyBatchesData, teamFilter,
                          contributorFilter, repositoryFilter, startDate, d)
    /\ UNCHANGED <<pc, csvFiles, validatedTeamStats, timeSeriesData, dailyBatchesData,
                   teamFilter, contributorFilter, repositoryFilter, startDate>>
    /\ UNCHANGED outsideDashboard

Next ==
    \/ AddDailyBatchFile
    \/ RunValidationScript
    \/ LoadTimeSeries
    \/ LoadDailyBatches
    \/ ChangeTeamFilter
    \/ ChangeContributorFilter
    \/ ChangeRepositoryFilter
    \/ ChangeStartDate
    \/ ChangeEndDate

vars == <<pc, csvFiles, validatedTeamStats, timeSeriesData, dailyBatchesData,
          teamFilter, contributorFilter, repositoryFilter, startDate, endDate,
          filteredData, summaryStats, teamsChart, validationTable, pipeVars,
          heurVars, runVars, pageVars, furtherVars>>

Spec == Init /\ [][Next]_vars

\* ------------------------------------------------------------------------
\* Report pipeline state machine (collectStats from STEP 5 on)
\* ------------------------------------------------------------------------
RECURSIVE SeqsUpTo(_, _)
SeqsUpTo(S, n) ==
    IF n = 0 THEN { <<>> }
    ELSE LET shorter == SeqsUpTo(S, n - 1)
         IN shorter \cup { Append(q, x) : q \in { r \in shorter : Len(r) = n - 1 }, x \in S }

Slugs == { Teams[i].slug : i \in 1..Len(Teams) }

PipelineInit ==
    /\ pc = "files"
    /\ csvFiles = <<>>
    /\ validatedTeamStats = <<>>
    /\ timeSeriesData = <<>>
    /\ dailyBatchesData = <<>>
    /\ teamFilter = ""
    /\ contributorFilter = ""
    /\ repositoryFilter = ""
    /\ startDate = 0
    /\ endDate = 0
    /\ filteredData = [timeSeries |-> <<>>, dailyBatches |-> <<>>]
    /\ summaryStats = DefaultStats
    /\ teamsChart = [shown |-> FALSE, teamData |-> <<>>, teamAIData |-> <<>>]
    /\ validationTable = renderValidationTable(<<>>)
    /\ apiMembers \in [Slugs -> MemberAnswers]
    /\ apiCommits \in SeqsUpTo(CommitShapes, MaxCommits)
    /\ apiCopilot \in [Slugs -> CopilotAnswers]
    /\ ppc = "teams"
    /\ teamIdx = 1
    /\ dateIdx = 1
    /\ teamMembersCache = <<>>
    /\ teamDailyStats = <<>>
    /\ dailyBatchCsv = <<>>
    /\ timeSeriesCsv = <<>>
    /\ teamPerformanceCsv = <<>>
    /\ HeurIdle
    /\ RunIdle
    /\ PageIdle
    /\ FurtherIdle

\* calculateTeamDailyStats: one iteration of for (const team of teams)
CalculateTeamDailyStats ==
    /\ ppc = "teams"
    /\ teamIdx <= Len(Teams)
    /\ LET team == Teams[teamIdx]
           got == getTeamMembers(teamMembersCache, team.slug)
       IN /\ teamMembersCache' = got.cache
          /\ teamDailyStats' = MapSet(teamDailyStats, team.name, teamEntry(team, got.members))
    /\ teamIdx' = teamIdx + 1
    /\ ppc' = IF teamIdx = Len(Teams) THEN "saveDaily" ELSE "teams"
    /\ UNCHANGED <<apiMembers, apiCommits, apiCopilot, dateIdx, dailyBatchCsv,
                   timeSeriesCsv, teamPerformanceCsv>>
    /\ UNCHANGED outsidePipeline

\* saveResultsToCSV: nothing is written when no team has a daily statistic
NoDailyStatistics ==
    /\ ppc = "saveDaily"
    /\ Len(sortedDates(teamDailyStats)) = 0
    /\ ppc' = "done"
    /\ UNCHANGED <<apiMembers, apiCommits, apiCopilot, teamIdx, dateIdx,
                   teamMembersCache, teamDailyStats, dailyBatchCsv, timeSeriesCsv,
                   teamPerformanceCsv>>
    /\ UNCHANGED outsidePipeline

\* saveResultsToCSV: one iteration of for (const date of sortedDates)
SaveDailyBatchCSV ==
    /\ ppc = "saveDaily"
    /\ dateIdx <= Len(sortedDates(teamDailyStats))
    /\ dailyBatchCsv' = dailyBatchCsv
                        \o saveDailyBatchCSV(teamDailyStats, sortedDates(teamDailyStats)[dateIdx])
    /\ dateIdx' = dateIdx + 1
    /\ ppc' = IF dateIdx = Len(sortedDates(teamDailyStats)) THEN "saveTimeSeries"
              ELSE "saveDaily"
    /\ UNCHANGED <<apiMembers, apiCommits, apiCopilot, teamIdx, teamMembersCache,
                   teamDailyStats, timeSeriesCsv, teamPerformanceCsv>>
    /\ UNCHANGED outsidePipeline

SaveTimeSeriesCSV ==
    /\ ppc = "saveTimeSeries"
    /\ timeSeriesCsv' = saveTimeSeriesCSV(teamDailyStats)
    /\ ppc' = "savePerformance"
    /\ UNCHANGED <<apiMembers, apiCommits, apiCopilot, teamIdx, dateIdx,
                   teamMembersCache, teamDailyStats, dailyBatchCsv, teamPerformanceCsv>>
    /\ UNCHANGED outsidePipeline

SaveTeamPerformanceSummaryCSV ==
    /\ ppc = "savePerformance"
    /\ teamPerformanceCsv' = saveTeamPerformanceSummaryCSV(teamDailyStats)
    /\ ppc' = "done"
    /\ UNCHANGED <<apiMembers, apiCommits, apiCopilot, teamIdx, dateIdx,
                   teamMembersCache, teamDailyStats, dailyBatchCsv, timeSeriesCsv>>
    /\ UNCHANGED outsidePipeline

PipelineNext ==
    \/ CalculateTeamDailyStats
    \/ NoDailyStatistics
    \/ SaveDailyBatchCSV
    \/ SaveTimeSeriesCSV
    \/ SaveTeamPerformanceSummaryCSV

SpecPipeline == PipelineInit /\ [][PipelineNext]_vars

\* ------------------------------------------------------------------------
\* Per-commit estimate state machine: one call of analyzeCommitForCopilot
\* ------------------------------------------------------------------------
\* the dashboard before any file is loaded
DashIdle ==
    /\ pc = "files"
    /\ csvFiles = <<>>
    /\ validatedTeamStats = <<>>
    /\ timeSeriesData = <<>>
    /\ dailyBatchesData = <<>>
    /\ teamFilter = ""
    /\ contributorFilter = ""
    /\ repositoryFilter = ""
    /\ startDate = 0
    /\ endDate = 0
    /\ filteredData = [timeSeries |-> <<>>, dailyBatches |-> <<>>]
    /\ summaryStats = DefaultStats
    /\ teamsChart = [shown |-> FALSE, teamData |-> <<>>, teamAIData |-> <<>>]
    /\ validationTable = renderValidationTable(<<>>)

HeuristicInit ==
    /\ DashIdle
    /\ PipeIdle
    /\ hpc = "input"
    /\ hCommit \in CommitInputs
    /\ hMetrics \in MetricsInputs
    /\ hResult = NoResult
    /\ RunIdle
    /\ PageIdle
    /\ FurtherIdle

AnalyzeCommitForCopilot ==
    /\ hpc = "input"
    /\ hpc' = "analyzed"
    /\ hResult' = analyzeCommitForCopilot(hCommit, hMetrics)
    /\ UNCHANGED <<hCommit, hMetrics>>
    /\ UNCHANGED outsideHeuristic

HeuristicNext == AnalyzeCommitForCopilot

SpecHeuristic == HeuristicInit /\ [][HeuristicNext]_vars

\* ------------------------------------------------------------------------
\* Command-line state machine: index.js, then collectStats
\* ------------------------------------------------------------------------
RunInit ==
    /\ DashIdle
    /\ PipeIdle
    /\ HeurIdle
    /\ PageIdle
    /\ FurtherIdle
    /\ rpc = "parseArgs"
    /\ argv \in [help : BOOLEAN, from : {NotGiven, IsoDate, ShortDate},
                 to : {NotGiven, IsoDate, SlashDate}]
    /\ env \in [GITHUB_TOKEN : BOOLEAN, START_DATE : {NotGiven, SlashDate},
                END_DATE : {NotGiven, IsoDate}]
    /\ github \in [tokenValid : BOOLEAN, orgFound : BOOLEAN, repos : {0, 1},
                   teams : {0, 1}]
    /\ exitCode = NoExit
    /\ collectResult = "none"
    /\ callLog = <<>>

\* const args = parseArgs(): --help prints the usage and exits with 0
ParseArgs ==
    /\ rpc = "parseArgs"
    /\ IF argv.help
       THEN rpc' = "exited" /\ exitCode' = 0
       ELSE rpc' = "requireToken" /\ UNCHANGED exitCode
    /\ UNCHANGED <<argv, env, github, collectResult, callLog>>
    /\ UNCHANGED outsideRun

\* if (!GITHUB_TOKEN) process.exit(1)
RequireToken ==
    /\ rpc = "requireToken"
    /\ IF ~env.GITHUB_TOKEN
       THEN rpc' = "exited" /\ exitCode' = 1
       ELSE rpc' = "validateStartDate" /\ UNCHANGED exitCode
    /\ UNCHANGED <<argv, env, github, collectResult, callLog>>
    /\ UNCHANGED outsideRun

\* if (START_DATE && !/^\d{4}-\d{2}-\d{2}$/.test(START_DATE)) process.exit(1)
ValidateStartDate ==
    /\ rpc = "validateStartDate"
    /\ IF START_DATE # NotGiven /\ ~MatchesDateFormat(START_DATE)
       THEN rpc' = "exited" /\ exitCode' = 1
       ELSE rpc' = "validateEndDate" /\ UNCHANGED exitCode
    /\ UNCHANGED <<argv, env, github, collectResult, callLog>>
    /\ UNCHANGED outsideRun

\* if (END_DATE && !/^\d{4}-\d{2}-\d{2}$/.test(END_DATE)) process.exit(1)
ValidateEndDate ==
    /\ rpc = "validateEndDate"
    /\ IF END_DATE # NotGiven /\ ~MatchesDateFormat(END_DATE)
       THEN rpc' = "exited" /\ exitCode' = 1
       ELSE rpc' = "validateToken" /\ UNCHANGED exitCode
    /\ UNCHANGED <<argv, env, github, collectResult, callLog>>
    /\ UNCHANGED outsideRun

\* collectStats: if (!await validateToken(headers)) return null
ValidateToken ==
    /\ rpc = "validateToken"
    /\ callLog' = Append(callLog, "validateToken")
    /\ IF ~github.tokenValid
       THEN rpc' = "returned" /\ collectResult' = "null"
       ELSE rpc' = "verifyOrgAccess" /\ UNCHANGED collectResult
    /\ UNCHANGED <<argv, env, github, exitCode>>
    /\ UNCHANGED outsideRun

\* collectStats: if (!await verifyOrgAccess(org, headers)) return null
VerifyOrgAccess ==
    /\ rpc = "verifyOrgAccess"
    /\ callLog' = Append(callLog, "verifyOrgAccess")
    /\ IF ~github.orgFound
       THEN rpc' = "returned" /\ collectResult' = "null"
       ELSE rpc' = "getAllRepos" /\ UNCHANGED collectResult
    /\ UNCHANGED <<argv, env, github, exitCode>>
    /\ UNCHANGED outsideRun

\* the run going on to the teams although no repository was found
GetAllRepos_goesOn ==
    /\ rpc = "getAllRepos"
    /\ callLog' = Append(callLog, "getAllRepos")
    /\ rpc' = "getTeamsForAnalysis"
    /\ UNCHANGED <<argv, env, github, exitCode, collectResult>>
    /\ UNCHANGED outsideRun

\* collectStats: allRepos = await utils.getAllRepos(...);
\* if (allRepos.length === 0) return null
GetAllRepos ==
    /\ rpc = "getAllRepos"
    /\ callLog' = Append(callLog, "getAllRepos")
    /\ IF github.repos = 0
       THEN rpc' = "returned" /\ collectResult' = "null"
       ELSE rpc' = "getTeamsForAnalysis" /\ UNCHANGED collectResult
    /\ UNCHANGED <<argv, env, github, exitCode>>
    /\ UNCHANGED outsideRun

\* collectStats: teams = await getTeamsForAnalysis(...); if (!teams) return null
GetTeamsForAnalysis ==
    /\ rpc = "getTeamsForAnalysis"
    /\ callLog' = Append(callLog, "getTeamsForAnalysis")
    /\ IF github.teams = 0
       THEN rpc' = "returned" /\ collectResult' = "null"
       ELSE rpc' = "getAllCommits" /\ UNCHANGED collectResult
    /\ UNCHANGED <<argv, env, github, exitCode>>
    /\ UNCHANGED outsideRun

\* collectStats: STEP 1 to STEP 5 (getAllCommits ... calculateTeamDailyStats)
GetAllCommits ==
    /\ rpc = "getAllCommits"
    /\ callLog' = Append(callLog, "getAllCommits")
    /\ rpc' = "saveResultsToCSV"
    /\ UNCHANGED <<argv, env, github, exitCode, collectResult>>
    /\ UNCHANGED outsideRun

\* collectStats: await saveResultsToCSV(...); return results
SaveResultsToCSV ==
    /\ rpc = "saveResultsToCSV"
    /\ callLog' = Append(callLog, "saveResultsToCSV")
    /\ rpc' = "returned"
    /\ collectResult' = "results"
    /\ UNCHANGED <<argv, env, github, exitCode>>
    /\ UNCHANGED outsideRun

\* (async () => { await core.collectStats(...); })(): the value returned is
\* dropped, nothing is left to run and the process ends with exit code 0
ProcessEnds ==
    /\ rpc = "returned"
    /\ rpc' = "exited"
    /\ exitCode' = 0
    /\ UNCHANGED <<argv, env, github, collectResult, callLog>>
    /\ UNCHANGED outsideRun

RunNext ==
    \/ ParseArgs
    \/ RequireToken
    \/ ValidateStartDate
    \/ ValidateEndDate
    \/ ValidateToken
    \/ VerifyOrgAccess
    \/ GetAllRepos
    \/ GetTeamsForAnalysis
    \/ GetAllCommits
    \/ SaveResultsToCSV
    \/ ProcessEnds

SpecRun == RunInit /\ [][RunNext]_vars

\* ------------------------------------------------------------------------
\* Paginated listing state machine: getRepoCommitsForTeam
\* ------------------------------------------------------------------------
PagingInit ==
    /\ DashIdle
    /\ PipeIdle
    /\ HeurIdle
    /\ RunIdle
    /\ FurtherIdle
    /\ gpc = "loop"
    /\ repoCommits \in 0..MaxRepoCommits
    /\ failingPage \in 0..(PageLimit + 1)
    /\ page = 1
    /\ hasMorePages = TRUE
    /\ fetched = 0

\* one iteration of while (hasMorePages && page <= 5)
FetchPage ==
    /\ gpc = "loop"
    /\ hasMorePages /\ page <= PageLimit
    /\ IF page = failingPage
       THEN \* catch (error): hasMorePages = false
            /\ hasMorePages' = FALSE
            /\ UNCHANGED <<page, fetched>>
       ELSE IF pageLength(repoCommits, page) = 0
       THEN \* hasMorePages = false; break
            /\ hasMorePages' = FALSE
            /\ UNCHANGED <<page, fetched>>
       ELSE /\ fetched' = fetched + pageLength(repoCommits, page)
            /\ hasMorePages' = (pageLength(repoCommits, page) = PerPage)
            /\ page' = page + 1
    /\ UNCHANGED <<gpc, repoCommits, failingPage>>
    /\ UNCHANGED outsidePaging

\* return commits
ReturnCommits ==
    /\ gpc = "loop"
    /\ ~(hasMorePages /\ page <= PageLimit)
    /\ gpc' = "returned"
    /\ UNCHANGED <<repoCommits, failingPage, page, hasMorePages, fetched>>
    /\ UNCHANGED outsidePaging

PagingNext ==
    \/ FetchPage
    \/ ReturnCommits

SpecPaging == PagingInit /\ [][PagingNext]_vars

\* ------------------------------------------------------------------------
\* Vocabulary of the properties
\* ------------------------------------------------------------------------
\* the (Contributor, CommitSHA, Repository) key of a row, as a tuple
TripleOf(row) == <<row.Contributor, row.CommitSHA, row.Repository>>

TriplesOf(D) == { TripleOf(D[i]) : i \in 1..Len(D) }

AIOf(row) == IF row.AILines = NoValue THEN 0 ELSE row.AILines
CodeOf(row) == IF row.CodeLines = NoValue THEN 0 ELSE row.CodeLines

\* positions of the rows of D that carry the key of row i
SameKey(D, i) == { j \in 1..Len(D) : TripleOf(D[j]) = TripleOf(D[i]) }

\* the highest AI lines among the rows that share the key of row i
MaxAIOf(D, i) ==
    CHOOSE m \in { AIOf(D[j]) : j \in SameKey(D, i) } :
        \A j \in SameKey(D, i) : AIOf(D[j]) <= m

\* row i is the first row of its key that carries the highest AI lines
IsKept(D, i) ==
    /\ AIOf(D[i]) = MaxAIOf(D, i)
    /\ \A j \in SameKey(D, i) : AIOf(D[j]) = MaxAIOf(D, i) => i <= j

KeptCode(D) == SumSeq([i \in 1..Len(D) |-> IF IsKept(D, i) THEN CodeOf(D[i]) ELSE 0])
KeptAI(D) == SumSeq([i \in 1..Len(D) |-> IF IsKept(D, i) THEN AIOf(D[i]) ELSE 0])

\* the first row of every key, in input order: entry k of a deduplication map
\* stands for the key of row KeyRows(D)[k]
KeyRows(D) ==
    SelectSeq([i \in 1..Len(D) |-> i], LAMBDA i : \A j \in SameKey(D, i) : i <= j)

\* the position, among the keys, of the key of row i
KeyIndex(D, i) == CHOOSE k \in 1..Len(KeyRows(D)) : KeyRows(D)[k] \in SameKey(D, i)

\* the rows of D that are kept and listed under team t
KeptOfTeam(D, t) == { i \in 1..Len(D) : IsKept(D, i) /\ D[i].Team = t }

RawCode(D) == SumSeq([i \in 1..Len(D) |-> CodeOf(D[i])])
RawAI(D) == SumSeq([i \in 1..Len(D) |-> AIOf(D[i])])

\* a row with a real commit SHA (not missing, empty or the 'N/A' placeholder)
HasSha(row) == row.CommitSHA \notin {"", "N/A"}

\* the rows the dashboard views are computed from
Shown == filteredData.dailyBatches

\* csvFiles' lists, under one more team, a commit that csvFiles already lists
Relisted ==
    /\ pc = "files"
    /\ Len(csvFiles') = Len(csvFiles) + 1
    /\ LET r == csvFiles'[Len(csvFiles')]
       IN /\ HasSha(r)
          /\ \E j \in 1..Len(csvFiles) : TripleOf(csvFiles[j]) = TripleOf(r)
          /\ \A j \in 1..Len(csvFiles) :
                TripleOf(csvFiles[j]) = TripleOf(r) => csvFiles[j].Team # r.Team

TotalsOf(D) ==
    [code |-> SumCodeLines(summaryUniqueCommits(D)),
     ai |-> SumAILines(summaryUniqueCommits(D))]

\* ------------------------------------------------------------------------
\* C1
\* ------------------------------------------------------------------------
\* C1 as stated: when a commit already listed is listed again under another
\* team, neither the total code lines nor the total AI lines over the
\* canonical entries change.
C1_TotalsUnchangedOnRelisting ==
    [][Relisted => TotalsOf(csvFiles') = TotalsOf(csvFiles)]_vars

\* C1 amended: deduplication yields exactly one canonical entry per distinct
\* (Contributor, CommitSHA, Repository) key, in the summary cards and in the
\* validation script; the totals are the sums, over the distinct keys, of
\* the code lines and of the highest AI lines listed for the key.  Listing a
\* commit again under another team leaves the total code lines unchanged and
\* raises the total AI lines by exactly the amount by which the new listing
\* exceeds the highest AI lines listed before (by nothing if it does not).
C1_OneEntryPerKey ==
    /\ [](LET uc == summaryUniqueCommits(Shown)
              vc == maxAIUniqueCommits(csvFiles)
          IN /\ Len(uc) = Cardinality(TriplesOf(Shown))
             /\ Cardinality(MapKeys(uc)) = Len(uc)
             /\ Len(vc) = Cardinality(TriplesOf(csvFiles))
             /\ Cardinality(MapKeys(vc)) = Len(vc)
             /\ (pc = "ready" /\ Len(Shown) > 0) =>
                   /\ summaryStats.totalCommits = Cardinality(TriplesOf(Shown))
                   /\ summaryStats.totalCodeLines = KeptCode(Shown)
                   /\ summaryStats.totalAILines = KeptAI(Shown)
             /\ pc # "files" =>
                   /\ SumSeq([i \in 1..Len(validatedTeamStats) |->
                                validatedTeamStats[i].value.commits])
                        = Cardinality(TriplesOf(csvFiles))
                   /\ SumSeq([i \in 1..Len(validatedTeamStats) |->
                                validatedTeamStats[i].value.totalCodeLines])
                        = KeptCode(csvFiles)
                   /\ SumSeq([i \in 1..Len(validatedTeamStats) |->
                                validatedTeamStats[i].value.totalAILines])
                        = KeptAI(csvFiles))
    /\ [][Relisted =>
            LET r == csvFiles'[Len(csvFiles')]
                n == Len(csvFiles')
                before == MaxAIOf(csvFiles, CHOOSE j \in 1..Len(csvFiles) :
                                               TripleOf(csvFiles[j]) = TripleOf(r))
            IN /\ TotalsOf(csvFiles').code = TotalsOf(csvFiles).code
               /\ TotalsOf(csvFiles').ai =
                     TotalsOf(csvFiles).ai
                     + (IF AIOf(r) > before THEN AIOf(r) - before ELSE 0)]_vars

\* a commit listed under both teams with different AI lines has been loaded
\* and the summary cards count it once
C1_Witness ==
    /\ pc = "ready"
    /\ \E i, j \in 1..Len(Shown) :
          /\ i < j
          /\ HasSha(Shown[i])
          /\ TripleOf(Shown[i]) = TripleOf(Shown[j])
          /\ Shown[i].Team # Shown[j].Team
          /\ AIOf(Shown[i]) < AIOf(Shown[j])
    /\ summaryStats.totalCommits < Len(Shown)
    /\ Len(validatedTeamStats) > 0

\* ------------------------------------------------------------------------
\* C2
\* ------------------------------------------------------------------------
\* every entry of a deduplication map carries the highest AI lines of its key
EntriesCarryMaxAI(m, D) ==
    /\ Len(m) = Len(KeyRows(D))
    /\ \A k \in 1..Len(m) : m[k].value.aiLines = MaxAIOf(D, KeyRows(D)[k])

\* C2: for every set of rows that share one (Contributor, CommitSHA,
\* Repository) key, the AI lines of the single canonical entry equal the
\* maximum AI lines found among those rows: in the summary cards, in the
\* per-team chart and in the validation script; the AI total of the summary
\* cards is the sum of these maxima.
C2_CanonicalAIIsMax ==
    /\ EntriesCarryMaxAI(summaryUniqueCommits(Shown), Shown)
    /\ EntriesCarryMaxAI(teamsUniqueCommits(Shown), Shown)
    /\ EntriesCarryMaxAI(maxAIUniqueCommits(csvFiles), csvFiles)
    /\ (pc = "ready" /\ Len(Shown) > 0) =>
          summaryStats.totalAILines =
             SumSeq([k \in 1..Len(KeyRows(Shown)) |-> MaxAIOf(Shown, KeyRows(Shown)[k])])

\* three rows of one key are shown, the highest AI lines in the middle one,
\* and the summary cards report that value
C2_Witness ==
    /\ pc = "ready"
    /\ Len(Shown) = 3
    /\ TripleOf(Shown[1]) = TripleOf(Shown[2])
    /\ TripleOf(Shown[2]) = TripleOf(Shown[3])
    /\ AIOf(Shown[1]) < AIOf(Shown[2])
    /\ AIOf(Shown[3]) < AIOf(Shown[2])
    /\ summaryStats.totalAILines = AIOf(Shown[2])

\* ------------------------------------------------------------------------
\* C3
\* ------------------------------------------------------------------------
\* the entry of the key of row i carries the team and the AI lines of row i
EntryIsOfRow(m, D, i) ==
    /\ Len(m) = Len(KeyRows(D))
    /\ m[KeyIndex(D, i)].value.team = D[i].Team
    /\ m[KeyIndex(D, i)].value.aiLines = AIOf(D[i])

\* C3: given two rows for the same key with different AI lines, the
\* canonical entry carries the team and the AI lines of the row with the
\* higher AI lines, whichever of the two rows comes first in the input.
C3_HigherRowWins ==
    \A D \in {Shown, csvFiles} :
       \A i, j \in 1..Len(D) :
          (SameKey(D, i) = {i, j} /\ AIOf(D[i]) > AIOf(D[j])) =>
             /\ EntryIsOfRow(maxAIUniqueCommits(D), D, i)
             /\ EntryIsOfRow(teamsUniqueCommits(D), D, i)
             /\ EntryIsOfRow(summaryUniqueCommits(D), D, i)

\* the validation script has read a commit listed first under one team and
\* then with more AI lines under another team, and reports it under the
\* second team only
C3_Witness ==
    /\ pc # "files"
    /\ \E i, j \in 1..Len(csvFiles) :
          /\ i < j
          /\ SameKey(csvFiles, i) = {i, j}
          /\ AIOf(csvFiles[i]) < AIOf(csvFiles[j])
          /\ csvFiles[i].Team # csvFiles[j].Team
          /\ MapHas(validatedTeamStats, csvFiles[j].Team)
          /\ ~MapHas(validatedTeamStats, csvFiles[i].Team)

\* ------------------------------------------------------------------------
\* C4
\* ------------------------------------------------------------------------
\* no contributor appears under more than one team in D
NoSharedContributor(D) ==
    \A i, j \in 1..Len(D) : D[i].Contributor = D[j].Contributor => D[i].Team = D[j].Team

\* C4 as stated: the code lines of the summary cards (canonical entries) are
\* at most the code lines summed over the raw rows (the contributions
\* table), and the two are equal if and only if no contributor appears
\* under more than one team.
C4_EqualIffNoSharedContributor ==
    (pc = "ready" /\ Len(Shown) > 0) =>
       /\ summaryStats.totalCodeLines <= validationTable.totalCodeLines
       /\ (summaryStats.totalCodeLines = validationTable.totalCodeLines)
             <=> NoSharedContributor(Shown)

\* C4 amended: the code lines summed over the canonical entries are at most
\* the code lines summed over the raw rows, and the two sums are equal if
\* and only if every row that is not the canonical row of its key has zero
\* code lines.
C4_CanonicalCodeAtMostRaw ==
    /\ (pc = "ready" /\ Len(Shown) > 0) =>
          /\ validationTable.totalCodeLines = RawCode(Shown)
          /\ summaryStats.totalCodeLines <= validationTable.totalCodeLines
          /\ (summaryStats.totalCodeLines = validationTable.totalCodeLines)
                <=> (\A i \in 1..Len(Shown) : ~IsKept(Shown, i) => CodeOf(Shown[i]) = 0)
    /\ pc # "files" =>
          LET code == SumSeq([i \in 1..Len(validatedTeamStats) |->
                                validatedTeamStats[i].value.totalCodeLines])
          IN /\ code <= RawCode(csvFiles)
             /\ (code = RawCode(csvFiles))
                   <=> (\A i \in 1..Len(csvFiles) :
                           ~IsKept(csvFiles, i) => CodeOf(csvFiles[i]) = 0)

\* a commit with code lines is shown under two teams and the summary cards
\* report fewer code lines than the contributions table
C4_Witness ==
    /\ pc = "ready"
    /\ \E i, j \in 1..Len(Shown) :
          /\ i # j
          /\ TripleOf(Shown[i]) = TripleOf(Shown[j])
          /\ Shown[i].Team # Shown[j].Team
          /\ CodeOf(Shown[i]) > 0
    /\ summaryStats.totalCodeLines < validationTable.totalCodeLines

\* ------------------------------------------------------------------------
\* C5
\* ------------------------------------------------------------------------
\* C5: rows whose commit SHA is missing, empty or 'N/A' are never merged
\* with one another: each of them is an entry of its own and passes through
\* with its values unchanged, so the summary cards count every such row and
\* add its code lines and AI lines to those of the distinct real commits.
C5_NoShaRowsNeverMerged ==
    (pc = "ready" /\ Len(Shown) > 0) =>
       LET real == SelectSeq(Shown, HasSha)
           other == SelectSeq(Shown, LAMBDA r : ~HasSha(r))
       IN /\ summaryStats.totalCommits = Cardinality(TriplesOf(real)) + Len(other)
          /\ summaryStats.totalCodeLines = KeptCode(real) + RawCode(other)
          /\ summaryStats.totalAILines = KeptAI(real) + RawAI(other)

\* ------------------------------------------------------------------------
\* C6
\* ------------------------------------------------------------------------
\* the per-team entries of m are those of the teams that hold a kept row of
\* D, each with the code lines and AI lines of its kept rows only
TeamTotalsOfKeptRows(m, D) ==
    /\ MapKeys(m) = { D[i].Team : i \in { j \in 1..Len(D) : IsKept(D, j) } }
    /\ \A k \in 1..Len(m) :
          LET kept == [i \in 1..Len(D) |->
                         IF IsKept(D, i) /\ D[i].Team = m[k].key THEN 1 ELSE 0]
          IN /\ m[k].value.totalCodeLines =
                   SumSeq([i \in 1..Len(D) |-> kept[i] * CodeOf(D[i])])
             /\ m[k].value.totalAILines =
                   SumSeq([i \in 1..Len(D) |-> kept[i] * AIOf(D[i])])

\* C6: when the same commit is reported under two teams with different AI
\* lines, per-team aggregation counts the commit only in the team with the
\* higher AI lines; the other team's commit count, code lines and AI lines
\* do not include it: every team's figures, in the validation script and in
\* the per-team chart, are those of the commits whose canonical row is
\* listed under that team.
C6_CountedInHigherTeamOnly ==
    /\ pc # "files" =>
          /\ TeamTotalsOfKeptRows(validatedTeamStats, csvFiles)
          /\ \A k \in 1..Len(validatedTeamStats) :
                validatedTeamStats[k].value.commits =
                   Cardinality(KeptOfTeam(csvFiles, validatedTeamStats[k].key))
    /\ (pc = "ready" /\ Len(Shown) > 0 /\ teamFilter = "") =>
          TeamTotalsOfKeptRows(teamsChart.teamData, Shown)

\* the 231-line commit is shown with 0 AI lines under Fulfillment and with
\* 15 under qa-automation-team; the chart and the script count it under
\* qa-automation-team and Fulfillment has no figures at all
C6_Witness ==
    /\ pc = "ready"
    /\ teamFilter = ""
    /\ Len(Shown) = 2
    /\ \E i, j \in 1..2 :
          /\ Shown[i] = mkRow(1, Fulfillment, "order-handler", "carlos", "00ba127", 231, 0)
          /\ Shown[j] = mkRow(1, QaTeam, "order-handler", "carlos", "00ba127", 231, 15)
    /\ teamsChart.teamData =
          << [key |-> QaTeam, value |-> [totalCodeLines |-> 231, totalAILines |-> 15]] >>
    /\ MapHas(validatedTeamStats, QaTeam)
    /\ MapGet(validatedTeamStats, QaTeam).commits = 1
    /\ ~MapHas(validatedTeamStats, Fulfillment)

\* ------------------------------------------------------------------------
\* C7
\* ------------------------------------------------------------------------
\* the commits listed in the per-team daily statistics of one team
CommitsOfTeam(stats) ==
    UNION { { stats.dailyStats[d].contributions[i].commitSha :
                i \in 1..Len(stats.dailyStats[d].contributions) } :
            d \in DOMAIN stats.dailyStats }

\* C7: the per-team daily statistics built by the report pipeline, and the
\* daily-batch CSV written from them, hold one row per canonical attribution:
\* a commit appears under exactly one team, never once under each of two
\* teams.
C7_OneTeamPerCommit ==
    /\ \A a, b \in 1..Len(teamDailyStats) :
          a # b => CommitsOfTeam(teamDailyStats[a].value)
                      \cap CommitsOfTeam(teamDailyStats[b].value) = {}
    /\ \A i, j \in 1..Len(dailyBatchCsv) :
          TripleOf(dailyBatchCsv[i]) = TripleOf(dailyBatchCsv[j]) => i = j

\* ------------------------------------------------------------------------
\* C8
\* ------------------------------------------------------------------------
\* C8: for any combination of team, contributor, repository and date-range
\* filters the totals of the dashboard views agree: the total code lines and
\* total AI lines of the summary cards equal the totals shown with the
\* contributions table and, when the per-team chart is computed, the sums
\* over its teams.
C8_ViewsAgree ==
    (pc = "ready" /\ Len(Shown) > 0) =>
       /\ summaryStats.totalCodeLines = validationTable.totalCodeLines
       /\ summaryStats.totalAILines = validationTable.totalAILines
       /\ teamFilter = "" =>
             /\ summaryStats.totalCodeLines =
                   SumSeq([k \in 1..Len(teamsChart.teamData) |->
                             teamsChart.teamData[k].value.totalCodeLines])
             /\ summaryStats.totalAILines =
                   SumSeq([k \in 1..Len(teamsChart.teamData) |->
                             teamsChart.teamData[k].value.totalAILines])

\* ------------------------------------------------------------------------
\* C9
\* ------------------------------------------------------------------------
\* the canonical entries of m as rows, one per key: the key columns of the
\* key's rows in D, the team, code lines and AI lines of the entry
RowsOfEntries(m, D) ==
    [k \in 1..Len(m) |->
       [D[KeyRows(D)[k]] EXCEPT !.Team = m[k].value.team,
                                !.CodeLines = m[k].value.codeLines,
                                !.AILines = m[k].value.aiLines]]

\* C9: deduplication is idempotent: feeding the canonical entries of one
\* pass, one row per key, through deduplication again yields exactly the
\* same entries, with the same team, code lines and AI lines for every key:
\* in the summary cards, the per-team chart and the validation script.
C9_Idempotent ==
    LET s == summaryUniqueCommits(Shown)
        t == teamsUniqueCommits(Shown)
        v == maxAIUniqueCommits(csvFiles)
    IN /\ Len(s) = Len(KeyRows(Shown))
       /\ Len(t) = Len(KeyRows(Shown))
       /\ Len(v) = Len(KeyRows(csvFiles))
       /\ summaryUniqueCommits(RowsOfEntries(s, Shown)) = s
       /\ teamsUniqueCommits(RowsOfEntries(t, Shown)) = t
       /\ maxAIUniqueCommits(RowsOfEntries(v, csvFiles)) = v
       /\ (pc = "ready" /\ Len(Shown) > 0) =>
             calculateSummaryStats(RowsOfEntries(s, Shown), <<>>).totalAILines
                = summaryStats.totalAILines
       /\ pc # "files" =>
             aggregateTeamDataWithMaxAI(RowsOfEntries(v, csvFiles)) = validatedTeamStats

\* two keys are shown, one of them merged from rows of two teams whose
\* second row carries more AI lines, so the canonical rows differ from the
\* first rows of the keys
C9_Witness ==
    /\ pc = "ready"
    /\ Len(Shown) = 3
    /\ Len(KeyRows(Shown)) = 2
    /\ \E i, j \in 1..3 :
          /\ i < j
          /\ TripleOf(Shown[i]) = TripleOf(Shown[j])
          /\ Shown[i].Team # Shown[j].Team
          /\ AIOf(Shown[i]) < AIOf(Shown[j])
    /\ RowsOfEntries(summaryUniqueCommits(Shown), Shown) # SubSeq(Shown, 1, 2)
    /\ summaryStats.totalCommits = 2

\* ------------------------------------------------------------------------
\* C10
\* ------------------------------------------------------------------------
\* 100 x cap in tenths of a percent, cap being the 0.7 of the per-commit
\* estimate Math.min(0.7, ...)
MaxAIPercentage == 700

\* C10: for every team summary and every time-series row the reported AI
\* percentage is a number in the range from 0 to 100 x cap (70.0): the
\* AIPercentage of the team-performance CSV, the DailyAIPercentage and the
\* CumulativeAIPercentage of the time-series CSV.
C10_PercentageWithinCap ==
    /\ \A i \in 1..Len(teamPerformanceCsv) :
          /\ teamPerformanceCsv[i].AIPercentage >= 0
          /\ teamPerformanceCsv[i].AIPercentage <= MaxAIPercentage
    /\ \A i \in 1..Len(timeSeriesCsv) :
          /\ timeSeriesCsv[i].DailyAIPercentage >= 0
          /\ timeSeriesCsv[i].DailyAIPercentage <= MaxAIPercentage
          /\ timeSeriesCsv[i].CumulativeAIPercentage >= 0
          /\ timeSeriesCsv[i].CumulativeAIPercentage <= MaxAIPercentage

\* ------------------------------------------------------------------------
\* C11
\* ------------------------------------------------------------------------
\* pct, an exact fraction, is ai / code x 100 when code > 0 and 0 otherwise
IsQuotient(pct, ai, code) ==
    /\ pct.den > 0
    /\ code > 0 => pct.num * code = ai * 100 * pct.den
    /\ code <= 0 => pct.num = 0

\* the dashboard summary (from the daily-batch rows, and from the time
\* series when there are none) and the validation script, run on the files
\* the pipeline wrote, report the exact quotient
ComputedSummariesAreQuotients ==
    /\ LET st == calculateSummaryStats(dailyBatchCsv, timeSeriesCsv)
       IN IsQuotient(st.aiPercentage, st.totalAILines, st.totalCodeLines)
    /\ LET st == calculateSummaryStats(<<>>, timeSeriesCsv)
       IN IsQuotient(st.aiPercentage, st.totalAILines, st.totalCodeLines)
    /\ LET ts == aggregateTeamDataWithMaxAI(dailyBatchCsv)
       IN \A i \in 1..Len(ts) :
             IsQuotient(ts[i].value.aiPercentage, ts[i].value.totalAILines,
                        ts[i].value.totalCodeLines)

\* C11 as stated: in every summary the AI percentage equals totalAILines /
\* totalCodeLines x 100 when totalCodeLines > 0 and 0 when it is 0: in the
\* team-performance CSV, the dashboard summary and the validation script.
C11_PercentageIsExactQuotient ==
    /\ \A i \in 1..Len(teamPerformanceCsv) :
          LET r == teamPerformanceCsv[i]
          IN /\ r.TotalCodeLines > 0 => r.AIPercentage * r.TotalCodeLines = r.TotalAILines * 1000
             /\ r.TotalCodeLines = 0 => r.AIPercentage = 0
    /\ ComputedSummariesAreQuotients

\* C11 amended: the AI percentage of a summary is totalAILines /
\* totalCodeLines x 100 when totalCodeLines > 0 and 0 when totalCodeLines is
\* 0 (no division by zero, no NaN or Infinity); the dashboard summary and
\* the validation script report the quotient itself, the team-performance
\* CSV reports it rounded to the nearest tenth.
C11_PercentageIsQuotientOrZero ==
    /\ \A i \in 1..Len(teamPerformanceCsv) :
          LET r == teamPerformanceCsv[i]
              diff == r.AIPercentage * r.TotalCodeLines - r.TotalAILines * 1000
          IN /\ r.AIPercentage >= 0
             /\ r.TotalCodeLines > 0 =>
                   /\ 2 * diff <= r.TotalCodeLines
                   /\ 2 * (0 - diff) <= r.TotalCodeLines
             /\ r.TotalCodeLines = 0 => r.AIPercentage = 0
    /\ ComputedSummariesAreQuotients

\* the team-performance CSV holds a team without code lines but with
\* Copilot lines, reported as 0, and a team whose quotient is not a whole
\* number of tenths
C11_Witness ==
    /\ ppc = "done"
    /\ \E i, j \in 1..Len(teamPerformanceCsv) :
          /\ teamPerformanceCsv[i].TotalCodeLines = 0
          /\ teamPerformanceCsv[i].TotalAILines > 0
          /\ teamPerformanceCsv[i].AIPercentage = 0
          /\ teamPerformanceCsv[j].TotalCodeLines > 0
          /\ teamPerformanceCsv[j].AIPercentage * teamPerformanceCsv[j].TotalCodeLines
                # teamPerformanceCsv[j].TotalAILines * 1000

\* ------------------------------------------------------------------------
\* C12
\* ------------------------------------------------------------------------
\* C12: in the time-series CSV, for every team, when that team's rows are
\* ordered by date, CumulativeCodeLines and CumulativeAILines never decrease
\* from one row to the next (the rows are written in date order).
C12_CumulativeNeverDecreases ==
    \A i, j \in 1..Len(timeSeriesCsv) :
       /\ i < j => timeSeriesCsv[i].Date <= timeSeriesCsv[j].Date
       /\ (timeSeriesCsv[i].Team = timeSeriesCsv[j].Team
           /\ timeSeriesCsv[i].Date < timeSeriesCsv[j].Date) =>
             /\ timeSeriesCsv[i].CumulativeCodeLines <= timeSeriesCsv[j].CumulativeCodeLines
             /\ timeSeriesCsv[i].CumulativeAILines <= timeSeriesCsv[j].CumulativeAILines

\* a team has code lines on the first day and fewer daily code lines on the
\* second day, and its cumulative code lines do not fall
C12_Witness ==
    /\ ppc = "done"
    /\ \E i, j \in 1..Len(timeSeriesCsv) :
          /\ timeSeriesCsv[i].Team = timeSeriesCsv[j].Team
          /\ timeSeriesCsv[i].Date < timeSeriesCsv[j].Date
          /\ timeSeriesCsv[i].DailyCodeLines > timeSeriesCsv[j].DailyCodeLines
          /\ timeSeriesCsv[i].DailyAILines > timeSeriesCsv[j].DailyAILines
          /\ timeSeriesCsv[j].CumulativeCodeLines >= timeSeriesCsv[i].CumulativeCodeLines

\* ------------------------------------------------------------------------
\* C13
\* ------------------------------------------------------------------------
\* the days of the series: every date on which some team has statistics
SeriesDays ==
    UNION { DOMAIN teamDailyStats[i].value.dailyStats : i \in 1..Len(teamDailyStats) }

\* positions of the time-series rows of a team on a date
RowsOfTeamOn(team, d) ==
    { i \in 1..Len(timeSeriesCsv) :
         timeSeriesCsv[i].Team = team /\ timeSeriesCsv[i].Date = d }

C14_NoEstimateWithoutData ==
    (/\ hpc = "analyzed"
     /\ \/ ~hMetrics.present
        \/ ~hMetrics.success
        \/ hMetrics.totalCodeLinesAccepted <= 0
        \/ ~hCommit.hasStats
        \/ hCommit.additions = 0)
    => (hResult.isCopilot = FALSE /\ hResult.estimatedCopilotLines = 0)

\* a commit with additions was analysed against failed metrics that carry
\* accepted lines, and got no estimate
C14_Witness ==
    /\ hpc = "analyzed"
    /\ hMetrics.present
    /\ ~hMetrics.success
    /\ hMetrics.totalCodeLinesAccepted > 0
    /\ hCommit.hasStats
    /\ hCommit.additions > 0
    /\ hResult = [isCopilot |-> FALSE, estimatedCopilotLines |-> 0]

C16_AILinesAtMostCodeLines ==
    \A i \in 1..Len(dailyBatchCsv) :
       /\ dailyBatchCsv[i].CodeLines = dailyBatchCsv[i].Additions + dailyBatchCsv[i].Deletions
       /\ dailyBatchCsv[i].AILines >= 0
       /\ dailyBatchCsv[i].AILines <= dailyBatchCsv[i].CodeLines

\* ------------------------------------------------------------------------
\* C17
\* ------------------------------------------------------------------------
\* the four checks of collectStats in the order claimed, and whether the
\* answers of GitHub and of the configuration let each of them pass
ChecksInOrder == <<"validateToken", "verifyOrgAccess", "getAllRepos", "getTeamsForAnalysis">>

CheckPasses(k) ==
    IF k = 1 THEN github.tokenValid
    ELSE IF k = 2 THEN github.orgFound
    ELSE IF k = 3 THEN github.repos > 0
    ELSE github.teams > 0

FailingChecks == { k \in 1..4 : ~CheckPasses(k) }

FirstFailingCheck == CHOOSE k \in FailingChecks : \A j \in FailingChecks : k <= j

\* C17: collectStats checks, in this order, that the token is valid, that
\* the organization is accessible, that at least one repository is found and
\* that at least one target team matches; at the first check that fails it
\* returns null at once and has run no later step: no commits are fetched
\* and no CSV file is written.
C17_NullAtFirstFailedCheck ==
    /\ \E n \in 0..6 :
          callLog = SubSeq(ChecksInOrder \o <<"getAllCommits", "saveResultsToCSV">>, 1, n)
    /\ collectResult # "none" =>
          IF FailingChecks # {}
          THEN /\ collectResult = "null"
               /\ callLog = SubSeq(ChecksInOrder, 1, FirstFailingCheck)
          ELSE /\ collectResult = "results"
               /\ callLog = ChecksInOrder \o <<"getAllCommits", "saveResultsToCSV">>

\* token and organization are fine, no repository is found although a team
\* would match: collectStats has returned null after the third check
C17_Witness ==
    /\ collectResult = "null"
    /\ github.tokenValid /\ github.orgFound
    /\ github.repos = 0 /\ github.teams > 0
    /\ callLog = <<"validateToken", "verifyOrgAccess", "getAllRepos">>

\* ------------------------------------------------------------------------
\* C18
\* ------------------------------------------------------------------------
\* C18: when a run aborts on a fatal condition (invalid token, inaccessible
\* organization, no repository found, no team matched) and collectStats
\* returns null, the process exits with a non-zero exit code.
C18_NullResultExitsNonZero ==
    (rpc = "exited" /\ collectResult = "null") => exitCode # 0

\* ------------------------------------------------------------------------
\* C19
\* ------------------------------------------------------------------------
\* a date value in YYYY-MM-DD format
InDateFormat(s) == s = IsoDate

\* a start or end date is supplied (by flag or environment) and is not in
\* YYYY-MM-DD format
BadDateSupplied ==
    \/ START_DATE # NotGiven /\ ~InDateFormat(START_DATE)
    \/ END_DATE # NotGiven /\ ~InDateFormat(END_DATE)

\* C19 as stated: the process exits with code 1, before collectStats is ever
\* called, when GITHUB_TOKEN is not set or when a supplied start date or end
\* date is not in YYYY-MM-DD format.
C19_ExitOneOnBadStartup ==
    /\ (~env.GITHUB_TOKEN \/ BadDateSupplied) => callLog = <<>>
    /\ (rpc = "exited" /\ (~env.GITHUB_TOKEN \/ BadDateSupplied)) => exitCode = 1

\* C19 amended: unless --help (or -h) is among the arguments, the process
\* exits with code 1, before collectStats is ever called, when GITHUB_TOKEN
\* is not set or when a supplied start date or end date is not in YYYY-MM-DD
\* format; with --help the usage is printed and the process exits with code
\* 0, also before collectStats is called.
C19_ExitOneUnlessHelp ==
    /\ (argv.help \/ ~env.GITHUB_TOKEN \/ BadDateSupplied) => callLog = <<>>
    /\ (rpc = "exited" /\ ~argv.help /\ (~env.GITHUB_TOKEN \/ BadDateSupplied)) =>
          exitCode = 1
    /\ (rpc = "exited" /\ argv.help) => exitCode = 0
    /\ (~argv.help /\ (~env.GITHUB_TOKEN \/ BadDateSupplied)) =>
          rpc \in {"parseArgs", "requireToken", "validateStartDate", "validateEndDate",
                   "exited"}

\* the token is set, the start date is well formed and the end date given
\* with --to is not: the process has exited with code 1 and collectStats
\* was not called
C19_Witness ==
    /\ rpc = "exited"
    /\ exitCode = 1
    /\ ~argv.help
    /\ env.GITHUB_TOKEN
    /\ START_DATE = IsoDate
    /\ argv.to = SlashDate
    /\ callLog = <<>>
    /\ collectResult = "none"

\* ------------------------------------------------------------------------
\* C20
\* ------------------------------------------------------------------------
\* C20: paginated listing keeps requesting the next page until a short page
\* is returned, so when no request fails all commits of the repository in
\* the date range are retrieved, however many full pages come before the
\* short one.
C20_AllCommitsRetrieved ==
    (gpc = "returned" /\ failingPage = 0) => fetched = repoCommits

\* ------------------------------------------------------------------------
\* Organization-wide totals state machine: collectStats STEPS 1 to 4
\* ------------------------------------------------------------------------
EarlierIdle ==
    /\ DashIdle
    /\ PipeIdle
    /\ HeurIdle
    /\ RunIdle
    /\ PageIdle

\* the listing of repository r: its commits get the shas of that repository
withShas(shapes, r) ==
    [i \in 1..Len(shapes) |->
        [sha |-> ShaOf((r - 1) * MaxListed + i), author |-> shapes[i].author,
         detailOk |-> shapes[i].detailOk, hasStats |-> shapes[i].hasStats,
         additions |-> shapes[i].additions, deletions |-> shapes[i].deletions]]

CollectInit ==
    /\ EarlierIdle
    /\ PrIdle
    /\ WindowIdle
    /\ KeysIdle
    /\ CacheIdle
    /\ cpc = "commits"
    /\ \E l1 \in SeqsUpTo(ListedShapes, MaxListed), l2 \in SeqsUpTo(ListedShapes, 1) :
          listings = <<withShas(l1, 1), withShas(l2, 2)>>
    /\ targetMembers \in { {}, {"carlos"}, Logins }
    /\ orgCopilot \in OrgCopilotAnswers
    /\ allCommits = <<>>
    /\ teamFilteredCommits = <<>>
    /\ results = NoResults

\* STEP 1: allCommits = await getAllCommits(...)
FetchAllCommits ==
    /\ cpc = "commits"
    /\ allCommits' = getAllCommits(listings)
    /\ cpc' = "filter"
    /\ UNCHANGED <<listings, targetMembers, orgCopilot, teamFilteredCommits, results>>
    /\ UNCHANGED outsideCollect

\* STEP 2: teamFilteredCommits = await filterCommitsByTeamMembers(...)
FilterCommitsByTeamMembers ==
    /\ cpc = "filter"
    /\ teamFilteredCommits' = filterCommitsByTeamMembers(allCommits, targetMembers)
    /\ cpc' = "stats"
    /\ UNCHANGED <<listings, targetMembers, orgCopilot, allCommits, results>>
    /\ UNCHANGED outsideCollect

\* STEPS 3 & 4: codeStats = await calculateCodeStatsFromCommits(...), and the
\* results object built from it
CalculateCodeStatsFromCommits ==
    /\ cpc = "stats"
    /\ LET codeStats == calculateCodeStatsFromCommits(teamFilteredCommits, orgCopilot)
       IN results' =
            [commits |-> [total |-> Len(allCommits),
                          teamFiltered |-> Len(teamFilteredCommits)],
             codeChanges |-> [additions |-> codeStats.totalAdditions,
                              deletions |-> codeStats.totalDeletions,
                              aiLines |-> codeStats.totalAILines,
                              total |-> codeStats.totalAdditions + codeStats.totalDeletions]]
    /\ cpc' = "done"
    /\ UNCHANGED <<listings, targetMembers, orgCopilot, allCommits, teamFilteredCommits>>
    /\ UNCHANGED outsideCollect

CollectNext ==
    \/ FetchAllCommits
    \/ FilterCommitsByTeamMembers
    \/ CalculateCodeStatsFromCommits

SpecCollect == CollectInit /\ [][CollectNext]_vars

\* ------------------------------------------------------------------------
\* C21
\* ------------------------------------------------------------------------
\* the commits of all listings, in listing order, with their repository index
ListedAll ==
    Flatten([r \in 1..Len(listings) |-> listings[r]])

\* the listed commits that the commit fetcher returns with additions > 0 and
\* whose author is a target team member
AnnotatedCommits ==
    SelectSeq(ListedAll, LAMBDA c :
        c.detailOk /\ c.hasStats /\ c.additions > 0 /\ c.author \in targetMembers)

\* Math.round(additions * Math.min(0.7, accepted / (additions * 10))) in
\* exact arithmetic, for additions > 0 and accepted > 0
HeuristicLines(additions, accepted) ==
    IF accepted >= 7 * additions THEN (2 * 7 * additions + 10) \div 20
    ELSE (2 * accepted + 10) \div 20

\* C21: when the organization's Copilot metrics succeed with
\* totalCodeLinesAccepted > 0, the run's codeChanges.aiLines is the sum, over
\* the team-filtered commits the fetcher returned with additions > 0, of
\* round(additions * min(0.7, totalCodeLinesAccepted / (additions * 10)))
C21_EveryCommitAnnotated ==
    (cpc = "done" /\ orgCopilot.success /\ orgCopilot.totalCodeLinesAccepted > 0)
    => results.codeChanges.aiLines =
          SumSeq([i \in 1..Len(AnnotatedCommits) |->
                    HeuristicLines(AnnotatedCommits[i].additions,
                                   orgCopilot.totalCodeLinesAccepted)])

\* ------------------------------------------------------------------------
\* C23
\* ------------------------------------------------------------------------
\* the listed commits whose detail request succeeded, in listing order
SucceededListed == SelectSeq(ListedAll, LAMBDA c : c.detailOk)

\* the succeeded commits of target team members
SucceededOfTeams == SelectSeq(SucceededListed, LAMBDA c : c.author \in targetMembers)

\* the lines the detail answer reports, 0 when it has no stats
DetailAdditions(c) == IF c.hasStats THEN c.additions ELSE 0
DetailDeletions(c) == IF c.hasStats THEN c.deletions ELSE 0

\* C23: a failed commit-detail request drops that commit only: once the
\* commits are fetched, allCommits holds every listed commit of every
\* repository whose detail request succeeded, in order, and the totals of the
\* finished run are those of the succeeded commits of the target teams
C23_DetailFailureSkipsOneCommit ==
    /\ cpc \in {"filter", "stats", "done"} =>
          /\ Len(allCommits) = Len(SucceededListed)
          /\ \A i \in 1..Len(allCommits) :
                /\ allCommits[i].sha = SucceededListed[i].sha
                /\ allCommits[i].additions = DetailAdditions(SucceededListed[i])
                /\ allCommits[i].deletions = DetailDeletions(SucceededListed[i])
    /\ cpc = "done" =>
          /\ results.commits.total = Len(SucceededListed)
          /\ results.commits.teamFiltered = Len(SucceededOfTeams)
          /\ results.codeChanges.additions =
                SumSeq([i \in 1..Len(SucceededOfTeams) |-> DetailAdditions(SucceededOfTeams[i])])
          /\ results.codeChanges.deletions =
                SumSeq([i \in 1..Len(SucceededOfTeams) |-> DetailDeletions(SucceededOfTeams[i])])

\* a finished run in which the detail request of the first commit of the
\* first repository failed, and a later commit of that repository and a
\* commit of the next repository were counted
C23_Witness ==
    /\ cpc = "done"
    /\ Len(listings[1]) = 2 /\ Len(listings[2]) = 1
    /\ ~listings[1][1].detailOk
    /\ listings[1][2].detailOk /\ listings[1][2].author \in targetMembers
    /\ listings[2][1].detailOk /\ listings[2][1].author \in targetMembers
    /\ results.commits.teamFiltered = 2
    /\ results.codeChanges.additions = 14

\* ------------------------------------------------------------------------
\* C22
\* ------------------------------------------------------------------------
\* the first n rows of D
FirstRows(D, n) == SubSeq(D, 1, n)

\* row n + 1 of D meets a stored entry of its key whose AI lines are at least
\* its own
MeetsStoredEntry(D, n) ==
    \E j \in 1..n :
        /\ TripleOf(D[j]) = TripleOf(D[n + 1])
        /\ AIOf(D[n + 1]) <= AIOf(D[j])

\* C22: a later row with the key of a stored canonical entry and with equal
\* or lower AI lines leaves the deduplication maps of the summary cards and of
\* the validation script as they were (team, code lines and AI lines of the
\* stored entry unchanged); of two rows of one key, the second with equal or
\* lower AI lines, the canonical entry carries the team, the code lines and
\* the AI lines of the first.
C22_EqualOrLowerLeavesEntry ==
    \A D \in {Shown, csvFiles} :
       LET summaryMap == [n \in 0..Len(D) |-> summaryUniqueCommits(FirstRows(D, n))]
           maxAIMap == [n \in 0..Len(D) |-> maxAIUniqueCommits(FirstRows(D, n))]
       IN /\ \A n \in 1..(Len(D) - 1) :
                MeetsStoredEntry(D, n) =>
                   /\ summaryMap[n + 1] = summaryMap[n]
                   /\ maxAIMap[n + 1] = maxAIMap[n]
          /\ \A i, j \in 1..Len(D) :
                (i < j /\ SameKey(D, i) = {i, j} /\ AIOf(D[j]) <= AIOf(D[i])) =>
                   \A m \in {maxAIMap[Len(D)], summaryMap[Len(D)]} :
                      /\ Len(m) = Len(KeyRows(D))
                      /\ m[KeyIndex(D, i)].value.team = D[i].Team
                      /\ m[KeyIndex(D, i)].value.codeLines = CodeOf(D[i])
                      /\ m[KeyIndex(D, i)].value.aiLines = AIOf(D[i])

\* the validation script has read a commit listed under one team and then,
\* with the same AI lines, under another team, and reports it under the
\* first team only
C22_Witness ==
    /\ pc # "files"
    /\ \E i, j \in 1..Len(csvFiles) :
          /\ i < j
          /\ SameKey(csvFiles, i) = {i, j}
          /\ AIOf(csvFiles[i]) = AIOf(csvFiles[j])
          /\ AIOf(csvFiles[i]) > 0
          /\ csvFiles[i].Team # csvFiles[j].Team
          /\ MapHas(validatedTeamStats, csvFiles[i].Team)
          /\ ~MapHas(validatedTeamStats, csvFiles[j].Team)

\* ------------------------------------------------------------------------
\* Team-members cache state machine
\* ------------------------------------------------------------------------
CacheInit ==
    /\ EarlierIdle
    /\ PrIdle
    /\ WindowIdle
    /\ KeysIdle
    /\ CollectIdle
    /\ kpc = "run"
    /\ cacheOrg \in Orgs
    /\ membersCache = <<>>
    /\ lookups = 0
    /\ lastCalls = <<>>
    /\ lastAnswer = FALSE

\* one call of isUserInTargetTeams; what the members endpoint answers can
\* differ from one request to the next
IsUserInTargetTeams ==
    /\ kpc = "run"
    /\ lookups < MaxLookups
    /\ \E username \in Logins, answers \in [1..Len(Teams) -> MemberAnswers] :
          LET r == isUserInTargetTeams(username, cacheOrg, answers, 1, membersCache, <<>>)
          IN /\ membersCache' = r.cache
             /\ lastCalls' = r.calls
             /\ lastAnswer' = r.found
    /\ lookups' = lookups + 1
    /\ UNCHANGED <<kpc, cacheOrg>>
    /\ UNCHANGED outsideCache

CacheNext == IsUserInTargetTeams

SpecCache == CacheInit /\ [][CacheNext]_vars

\* ------------------------------------------------------------------------
\* C24
\* ------------------------------------------------------------------------
\* the cache entry of an (organization, team slug) pair, if any
HasEntry(cache, org, slug) ==
    \E i \in 1..Len(cache) : cache[i].key = org \o "_" \o slug
EntryOf(cache, org, slug) ==
    cache[CHOOSE i \in 1..Len(cache) : cache[i].key = org \o "_" \o slug].value

\* C24: in every step, an entry the cache holds stays as it is; a
\* getTeamMembers call for a pair that has an entry sends no request and
\* returns the entry; and an entry appears only for a pair whose request
\* was sent and succeeded in that step, holding the list that request gave.
C24_CacheFilledOnceAndKept ==
    [][ /\ \A i \in 1..Len(membersCache) :
              /\ Len(membersCache') >= i
              /\ membersCache'[i] = membersCache[i]
        /\ \A n \in 1..Len(lastCalls') :
              HasEntry(membersCache, lastCalls'[n].org, lastCalls'[n].slug) =>
                 /\ ~lastCalls'[n].requested
                 /\ lastCalls'[n].members =
                       EntryOf(membersCache, lastCalls'[n].org, lastCalls'[n].slug)
        /\ \A t \in 1..Len(Teams) :
              (/\ HasEntry(membersCache', cacheOrg, Teams[t].slug)
               /\ ~HasEntry(membersCache, cacheOrg, Teams[t].slug)) =>
                 \E n \in 1..Len(lastCalls') :
                    /\ lastCalls'[n].slug = Teams[t].slug
                    /\ lastCalls'[n].requested /\ lastCalls'[n].ok
                    /\ lastCalls'[n].members = EntryOf(membersCache', cacheOrg, Teams[t].slug)
        /\ Len(membersCache') <= Len(Teams)
      ]_vars

\* a getTeamMembers call has just been answered from the cache, after an
\* earlier isUserInTargetTeams call, while another team's request failed
C24_Witness ==
    /\ kpc = "run"
    /\ lookups >= 2
    /\ Len(membersCache) = 1
    /\ Len(lastCalls) = 2
    /\ ~lastCalls[1].requested
    /\ lastCalls[1].members = EntryOf(membersCache, cacheOrg, lastCalls[1].slug)
    /\ lastCalls[1].members # {}
    /\ lastCalls[2].requested /\ ~lastCalls[2].ok

ReportedMembers(slug) ==
    IF apiMembers[slug].ok THEN apiMembers[slug].logins ELSE {}

\* the authors of the contributions recorded for one team
AuthorsOfTeam(stats) ==
    UNION { { stats.dailyStats[d].contributions[i].author :
                i \in 1..Len(stats.dailyStats[d].contributions) } :
            d \in DOMAIN stats.dailyStats }

\* C26: every contribution recorded in a team's daily statistics was
\* authored by a member of that team; a team without members, or whose
\* member list could not be fetched, has no contribution recorded.
C26_OnlyMembersContribute ==
    \A a \in 1..Len(teamDailyStats) :
        AuthorsOfTeam(teamDailyStats[a].value)
            \subseteq ReportedMembers(teamDailyStats[a].value.slug)

\* ------------------------------------------------------------------------
\* Deduplication of rows whose fields contain the separator
\* ------------------------------------------------------------------------
KeysInit ==
    /\ EarlierIdle
    /\ PrIdle
    /\ WindowIdle
    /\ CollectIdle
    /\ CacheIdle
    /\ qpc = "rows"
    /\ keyRows \in SeqsUpTo(SeparatorRows, MaxKeyRows)
    /\ keySummary = DefaultStats
    /\ keyValidated = <<>>

\* the dashboard's summary cards over the rows
SummariseRows ==
    /\ qpc = "rows"
    /\ keySummary' = calculateSummaryStats(keyRows, <<>>)
    /\ qpc' = "summarised"
    /\ UNCHANGED <<keyRows, keyValidated>>
    /\ UNCHANGED outsideKeys

\* the validation script over the same rows
ValidateRows ==
    /\ qpc = "summarised"
    /\ keyValidated' = aggregateTeamDataWithMaxAI(keyRows)
    /\ qpc' = "validated"
    /\ UNCHANGED <<keyRows, keySummary>>
    /\ UNCHANGED outsideKeys

KeysNext ==
    \/ SummariseRows
    \/ ValidateRows

SpecKeys == KeysInit /\ [][KeysNext]_vars

\* ------------------------------------------------------------------------
\* C27
\* ------------------------------------------------------------------------
\* C27: rows that differ in contributor, commit SHA or repository are never
\* merged: the summary cards count one commit per distinct (contributor,
\* commit SHA, repository) triple of the rows, and so does the validation
\* script over its teams.
C27_DistinctTriplesNeverMerged ==
    /\ (qpc \in {"summarised", "validated"} /\ Len(keyRows) > 0) =>
          keySummary.totalCommits = Cardinality(TriplesOf(keyRows))
    /\ qpc = "validated" =>
          SumSeq([t \in 1..Len(keyValidated) |-> keyValidated[t].value.commits])
             = Cardinality(TriplesOf(keyRows))

\* ------------------------------------------------------------------------
\* Copilot metrics window state machine
\* ------------------------------------------------------------------------
WindowInit ==
    /\ EarlierIdle
    /\ PrIdle
    /\ CollectIdle
    /\ CacheIdle
    /\ KeysIdle
    /\ wpc = "args"
    /\ clock \in Clocks
    /\ fromDate \in DateInputs
    /\ toDate \in DateInputs
    /\ copilotParams = NoParams

\* getCopilotMetrics(org, startDate, endDate, headers) up to axios.get
GetCopilotMetrics ==
    /\ wpc = "args"
    /\ copilotParams' = copilotWindow(fromDate, toDate, clock)
    /\ wpc' = "sent"
    /\ UNCHANGED <<clock, fromDate, toDate>>
    /\ UNCHANGED outsideWindow

\* getTeamCopilotMetrics(org, teamSlug, startDate, endDate, headers) up to
\* axios.get; the next team's request is built from the same dates
GetTeamCopilotMetrics ==
    /\ wpc \in {"args", "sent"}
    /\ copilotParams' = copilotWindow(fromDate, toDate, clock)
    /\ wpc' = "sentTeam"
    /\ UNCHANGED <<clock, fromDate, toDate>>
    /\ UNCHANGED outsideWindow

WindowNext ==
    \/ GetCopilotMetrics
    \/ GetTeamCopilotMetrics

SpecWindow == WindowInit /\ [][WindowNext]_vars

\* ------------------------------------------------------------------------
\* C28
\* ------------------------------------------------------------------------
\* C28: every Copilot metrics request that carries both since and until has
\* since <= until, whatever start and end dates were requested.
C28_SinceNotAfterUntil ==
    (wpc \in {"sent", "sentTeam"} /\ copilotParams.hasSince /\ copilotParams.hasUntil)
        => copilotParams.since <= copilotParams.until

\* ------------------------------------------------------------------------
\* Merged pull requests state machine: getRepoMergedPRs
\* ------------------------------------------------------------------------
\* the listing is sorted by update time, newest first
SortedByUpdate(list) ==
    \A i \in 1..(Len(list) - 1) : list[i].updatedAt >= list[i + 1].updatedAt

PrInit ==
    /\ EarlierIdle
    /\ CollectIdle
    /\ CacheIdle
    /\ KeysIdle
    /\ WindowIdle
    /\ prc = "loop"
    /\ prList \in { l \in SeqsUpTo(PrShapes, MaxPRs) : SortedByUpdate(l) }
    /\ sinceDate \in {NoDate} \cup (2..MaxTime)
    /\ untilDate \in {NoDate, 2}
    /\ \E f \in 0..3 :
          /\ prFailingPage = f
          /\ prFailStatus \in IF f = 0 THEN {0} ELSE {404, 500}
    /\ prPage = 1
    /\ prHasMorePages = TRUE
    /\ allPRs = <<>>
    /\ prReturned = <<>>

\* one iteration of while (hasMorePages)
FetchPrPage ==
    /\ prc = "loop"
    /\ prHasMorePages
    /\ IF prPage = prFailingPage
       THEN IF prFailStatus = 404
            THEN \* return []
                 /\ prc' = "returned"
                 /\ prReturned' = <<>>
                 /\ UNCHANGED <<prPage, prHasMorePages, allPRs>>
            ELSE \* hasMorePages = false
                 /\ prHasMorePages' = FALSE
                 /\ UNCHANGED <<prc, prPage, allPRs, prReturned>>
       ELSE LET items == pageItems(prList, prPage)
                prs == SelectSeq(items, LAMBDA i :
                           mergedInRange(prList[i], sinceDate, untilDate))
                length == prPageLength(prList, prPage)
            IN /\ allPRs' = allPRs \o prs
               /\ prPage' = prPage + 1
               /\ prHasMorePages' =
                     /\ length = PerPage
                     /\ ~(/\ length > 0
                          /\ goneBeyondRange(prList[items[Len(items)]].updatedAt, sinceDate))
               /\ UNCHANGED <<prc, prReturned>>
    /\ UNCHANGED <<prList, sinceDate, untilDate, prFailingPage, prFailStatus>>
    /\ UNCHANGED outsidePRs

\* return allPRs
ReturnPRs ==
    /\ prc = "loop"
    /\ ~prHasMorePages
    /\ prc' = "returned"
    /\ prReturned' = allPRs
    /\ UNCHANGED <<prList, sinceDate, untilDate, prFailingPage, prFailStatus,
                   prPage, prHasMorePages, allPRs>>
    /\ UNCHANGED outsidePRs

PrNext ==
    \/ FetchPrPage
    \/ ReturnPRs

SpecPRs == PrInit /\ [][PrNext]_vars

\* ------------------------------------------------------------------------
\* C29
\* ------------------------------------------------------------------------
\* the page that holds position i of the listing
PageOf(i) == 1 + Cardinality({ j \in 1..(i - 1) : prList[j].endsPage })

\* pull request i was merged within the requested date range
MergedWithinRange(i) ==
    /\ prList[i].mergedAt > 0
    /\ sinceDate = NoDate \/ sinceDate <= prList[i].mergedAt
    /\ untilDate = NoDate \/ prList[i].mergedAt <= untilDate

\* the pull requests of the pages before page p that were merged within the
\* range
MergedBeforePage(p) ==
    SelectSeq([i \in 1..Len(prList) |-> i], LAMBDA i : PageOf(i) < p /\ MergedWithinRange(i))

\* C29: when the request of a page after the first fails, the function
\* returns the merged pull requests collected from the pages before it,
\* whatever the HTTP status of the failure.
C29_CollectedSurviveFailure ==
    (/\ prc = "returned"
     /\ prFailingPage > 1
     /\ prPage = prFailingPage)
    => prReturned = MergedBeforePage(prFailingPage)

\* ------------------------------------------------------------------------
\* C30
\* ------------------------------------------------------------------------
\* no request of the call failed
NoPrFailure == prFailingPage = 0 \/ prPage < prFailingPage

\* C30: with the listing sorted by update time, newest first, and no merge
\* later than the update of its pull request, a call without failed request
\* returns every pull request merged within the date range, and only those,
\* also when it stops before the last page.
C30_EarlyStopOmitsNothing ==
    (prc = "returned" /\ NoPrFailure)
    => /\ \A i \in 1..Len(prList) :
             MergedWithinRange(i) => \E k \in 1..Len(prReturned) : prReturned[k] = i
       /\ \A k \in 1..Len(prReturned) : MergedWithinRange(prReturned[k])
       /\ \A k \in 1..(Len(prReturned) - 1) : prReturned[k] < prReturned[k + 1]

\* a call that stopped after a full page whose last item was updated before
\* the start date, leaving a later page unrequested, and returned a pull
\* request merged within the range
C30_Witness ==
    /\ prc = "returned"
    /\ prFailingPage = 0
    /\ sinceDate # NoDate
    /\ Len(prList) = MaxPRs
    /\ PageOf(Len(prList)) >= prPage
    /\ \E i \in 1..Len(prList) :
          /\ prList[i].endsPage
          /\ PageOf(i) = prPage - 1
          /\ prList[i].updatedAt < sinceDate
    /\ Len(prReturned) >= 1

====
